---- MODULE Spec2Model ----
(***************************************************************************)
(* A model of the ply2lcc converter: the spatial grid build                *)
(* (SpatialGrid::from_files), the parallel cell encoder                    *)
(* (GridEncoder::encode), the container writer (LccWriter), the older      *)
(* ConvertApp write path and the pure quantisers of compression.cpp.       *)
(*                                                                         *)
(* Floats are modelled by integers (positions in metres).  A 32-bit        *)
(* unsigned cell id is the record [hi, lo] of its two 16-bit halves, so    *)
(* that every id up to 0xFFFFFFFF is representable.                        *)
(***************************************************************************)
EXTENDS Integers, Sequences, FiniteSets, TLC

\* ------------------------------------------------------------------ bounds
MaxLods == 2
MaxRows == 2
MaxThreads == 2

\* ------------------------------------------------------- program constants
CellMax == 65535
DefaultCellSize == 30
DataRecordBytes == 32
ShRecordBytes == 64
ShSlots == 45

\* ------------------------------------------------------------------ helpers
Min2(a, b) == IF a < b THEN a ELSE b
Max2(a, b) == IF a > b THEN a ELSE b

RECURSIVE SeqSum(_)
SeqSum(s) == IF s = <<>> THEN 0 ELSE Head(s) + SeqSum(Tail(s))

RECURSIVE Concat(_)
Concat(ss) == IF ss = <<>> THEN <<>> ELSE Head(ss) \o Concat(Tail(ss))

\* std::floor of a float quotient with a positive divisor
FloorDiv(a, b) == a \div b

\* bitwise or of two 16-bit words
RECURSIVE BitOr(_, _)
BitOr(a, b) ==
  IF a = 0 THEN b
  ELSE IF b = 0 THEN a
  ELSE Max2(a % 2, b % 2) + 2 * BitOr(a \div 2, b \div 2)

\* (uint32(y) << 16) | uint32(x), for 0 <= x, y, as the halves of the result
PackId(y, x) == [hi |-> BitOr(y % 65536, (x \div 65536) % 65536), lo |-> x % 65536]

\* id & 0xFFFF and (id >> 16) & 0xFFFF
CellX(id) == id.lo
CellY(id) == id.hi

\* numeric order of the 32-bit ids (the key order of std::map<uint32_t, ...>)
IdLess(a, b) == a.hi < b.hi \/ (a.hi = b.hi /\ a.lo < b.lo)

UINT32_MAX == [hi |-> 65535, lo |-> 65535]

\* the keys of a std::map in iteration order
RECURSIVE SortedIds(_)
SortedIds(S) ==
  IF S = {} THEN <<>>
  ELSE LET m == CHOOSE a \in S : \A b \in S : a = b \/ IdLess(a, b)
       IN <<m>> \o SortedIds(S \ {m})

\* --------------------------------------------------- SpatialGrid (pure part)
\* the mutant drops the upper clamp of the cell coordinates
compute_cell_index_noclamp(bmin, csx, csy, pos) ==
  LET cell_x == Max2(0, FloorDiv(pos.x - bmin.x, csx))
      cell_y == Max2(0, FloorDiv(pos.y - bmin.y, csy))
  IN PackId(cell_y, cell_x)

compute_cell_index(bmin, csx, csy, pos) ==
  LET cx0 == FloorDiv(pos.x - bmin.x, csx)
      cy0 == FloorDiv(pos.y - bmin.y, csy)
      cell_x == Max2(0, Min2(cx0, CellMax))
      cell_y == Max2(0, Min2(cy0, CellMax))
  IN PackId(cell_y, cell_x)

\* ------------------------------------------------ std::map as a sorted list
\* a map is the sequence of its entries [k, v] in ascending key order
MapHas(m, k) == \E i \in 1..Len(m) : m[i].k = k
MapGet(m, k) == m[CHOOSE i \in 1..Len(m) : m[i].k = k].v
MapKeys(m) == {m[i].k : i \in 1..Len(m)}
MapPut(m, k, v) ==
  LET keys == SortedIds(MapKeys(m) \cup {k})
  IN [i \in 1..Len(keys) |->
        [k |-> keys[i], v |-> IF keys[i] = k THEN v ELSE MapGet(m, keys[i])]]

\* ----------------------------------------------------------------- inputs
\* positions of the splats a PLY row may hold (metres)
Positions ==
  { [x |-> 0, y |-> 0, z |-> 0],
    [x |-> 30, y |-> 0, z |-> 7],
    [x |-> 0, y |-> 45, z |-> 0],
    [x |-> 1966110, y |-> 45, z |-> 1] }

RowSeqs == UNION {[1..n -> Positions] : n \in 1..MaxRows}

\* a PLY file as SplatBuffer::initialize presents it
PlyFiles(nfr) == {[rows |-> r, num_f_rest |-> nfr] : r \in RowSeqs}

LodFileLists ==
  UNION {[1..n -> PlyFiles(nfr)] : n \in 1..MaxLods, nfr \in {0, ShSlots}}

VARIABLES
  pc,            \* position of the driver in the pipeline
  lod_files,     \* the input: one PLY file per LOD
  n_threads,     \* omp_get_max_threads()
  grid,          \* the SpatialGrid under construction
  lod,           \* loop variable of the per-LOD loops (0-based)
  chunk,         \* static schedule: rows [lo, hi) of each thread
  nextRow,       \* next row each thread processes
  local_grids,   \* ThreadLocalGrid of each thread
  nextIter,      \* dynamic schedule: next cell iteration to hand out
  thread_cells,  \* thread-local lists of encoded cells
  result,        \* the LccData returned by GridEncoder::encode
  out,           \* the files written by LccWriter::write
  app,           \* ConvertApp: encoded_cells_, units_ and its data.bin
  fn             \* input and result of the pure function under check

gridVars == <<lod_files, n_threads, grid, lod, chunk, nextRow, local_grids>>
encVars == <<nextIter, thread_cells, result>>
vars == <<pc, lod_files, n_threads, grid, lod, chunk, nextRow, local_grids,
          nextIter, thread_cells, result, out, app, fn>>

Threads == 1..n_threads
NumLods == Len(lod_files)

None == [none |-> TRUE]

NoGrid ==
  [bbox_min |-> [x |-> 0, y |-> 0, z |-> 0], has_sh |-> FALSE,
   num_f_rest |-> 0, cells |-> <<>>]

Init ==
  /\ pc = "pass1"
  /\ lod_files \in LodFileLists
  /\ n_threads \in 1..MaxThreads
  /\ grid = NoGrid
  /\ lod = 0
  /\ chunk = <<>>
  /\ nextRow = <<>>
  /\ local_grids = <<>>
  /\ nextIter = 0
  /\ thread_cells = <<>>
  /\ result = None
  /\ out = None
  /\ app = None
  /\ fn = None

\* ------------------------------------------------- SpatialGrid::from_files
AllRows == Concat([l \in 1..NumLods |-> lod_files[l].rows])

\* BBox::expand over every row of every LOD (pass 1)
RECURSIVE BBoxMin(_)
BBoxMin(rows) ==
  IF Len(rows) = 1 THEN Head(rows)
  ELSE LET r == BBoxMin(Tail(rows))
       IN [x |-> Min2(Head(rows).x, r.x), y |-> Min2(Head(rows).y, r.y),
           z |-> Min2(Head(rows).z, r.z)]

FromFilesPass1 ==
  /\ pc = "pass1"
  /\ grid' = [bbox_min |-> BBoxMin(AllRows),
              has_sh |-> lod_files[1].num_f_rest > 0,
              num_f_rest |-> lod_files[1].num_f_rest,
              cells |-> <<>>]
  /\ lod' = 0
  /\ pc' = "fork"
  /\ UNCHANGED <<lod_files, n_threads, chunk, nextRow, local_grids,
                 encVars, out, app, fn>>

\* schedule(static): each thread gets at most one contiguous block of rows,
\* the blocks in thread order; the block sizes are left to the runtime
StaticSchedules(T, R) ==
  {b \in [0..T -> 0..R] :
     b[0] = 0 /\ b[T] = R /\ \A t \in 1..T : b[t-1] <= b[t]}

ForkGrid ==
  /\ pc = "fork"
  /\ \E b \in StaticSchedules(n_threads, Len(lod_files[lod + 1].rows)) :
       /\ chunk' = [t \in Threads |-> [lo |-> b[t-1], hi |-> b[t]]]
       /\ nextRow' = [t \in Threads |-> b[t-1]]
  /\ local_grids' = [t \in Threads |-> [cell_indices |-> <<>>]]
  /\ pc' = "par"
  /\ UNCHANGED <<lod_files, n_threads, grid, lod, encVars, out, app, fn>>

\* one iteration of the omp-for body
GridRow(t) ==
  /\ pc = "par"
  /\ nextRow[t] < chunk[t].hi
  /\ LET i == nextRow[t]
         pos == lod_files[lod + 1].rows[i + 1]
         cell_id == compute_cell_index(grid.bbox_min, DefaultCellSize,
                                       DefaultCellSize, pos)
         m == local_grids[t].cell_indices
         old == IF MapHas(m, cell_id) THEN MapGet(m, cell_id) ELSE <<>>
     IN local_grids' = [local_grids EXCEPT
                          ![t].cell_indices = MapPut(m, cell_id, Append(old, i))]
  /\ nextRow' = [nextRow EXCEPT ![t] = @ + 1]
  /\ UNCHANGED <<pc, lod_files, n_threads, grid, lod, chunk, encVars, out, app, fn>>

\* the mutant overwrites the cell's list instead of appending to it
RECURSIVE merge_assign(_, _, _, _)
merge_assign(cells, local, l, num_lods) ==
  IF local = <<>> THEN cells
  ELSE LET e == Head(local)
           cell == IF MapHas(cells, e.k) THEN MapGet(cells, e.k)
                   ELSE [index |-> e.k, splat_indices |-> [j \in 1..num_lods |-> <<>>]]
           upd == [cell EXCEPT !.splat_indices[l + 1] = e.v]
       IN merge_assign(MapPut(cells, e.k, upd), Tail(local), l, num_lods)

\* the mutant puts the thread's rows in front of the cell's list
RECURSIVE merge_prepend(_, _, _, _)
merge_prepend(cells, local, l, num_lods) ==
  IF local = <<>> THEN cells
  ELSE LET e == Head(local)
           cell == IF MapHas(cells, e.k) THEN MapGet(cells, e.k)
                   ELSE [index |-> e.k, splat_indices |-> [j \in 1..num_lods |-> <<>>]]
           upd == [cell EXCEPT !.splat_indices[l + 1] = e.v \o @]
       IN merge_prepend(MapPut(cells, e.k, upd), Tail(local), l, num_lods)

\* SpatialGrid::merge: local is the thread's cell_indices map
RECURSIVE merge(_, _, _, _)
merge(cells, local, l, num_lods) ==
  IF local = <<>> THEN cells
  ELSE LET e == Head(local)
           cell == IF MapHas(cells, e.k) THEN MapGet(cells, e.k)
                   ELSE [index |-> e.k, splat_indices |-> [j \in 1..num_lods |-> <<>>]]
           upd == [cell EXCEPT !.splat_indices[l + 1] = @ \o e.v]
       IN merge(MapPut(cells, e.k, upd), Tail(local), l, num_lods)

RECURSIVE MergeThreads(_, _)
MergeThreads(cells, t) ==
  IF t > n_threads THEN cells
  ELSE MergeThreads(merge(cells, local_grids[t].cell_indices, lod, NumLods), t + 1)

\* the end of the parallel region and the sequential merge of one LOD
MergeLod ==
  /\ pc = "par"
  /\ \A t \in Threads : nextRow[t] = chunk[t].hi
  /\ grid' = [grid EXCEPT !.cells = MergeThreads(grid.cells, 1)]
  /\ lod' = lod + 1
  /\ pc' = IF lod + 1 < NumLods THEN "fork" ELSE "grid_done"
  /\ UNCHANGED <<lod_files, n_threads, chunk, nextRow, local_grids,
                 encVars, out, app, fn>>

GridNext == FromFilesPass1 \/ ForkGrid \/ (\E t \in Threads : GridRow(t)) \/ MergeLod

\* --------------------------------------------------------- compression.cpp
\* the mutant appends the SH record whatever the mode
encode_splat_view_always_sh(bufs, has_sh) ==
  [data |-> bufs.data + DataRecordBytes,
   shcoef |-> bufs.shcoef + ShRecordBytes]

\* encode_splat_view, as far as the buffer sizes go: 32 bytes are appended to
\* data_buf, and 64 bytes to sh_buf when has_sh
encode_splat_view(bufs, has_sh) ==
  [data |-> bufs.data + DataRecordBytes,
   shcoef |-> IF has_sh THEN bufs.shcoef + ShRecordBytes ELSE bufs.shcoef]

\* ---------------------------------------------------- LccData::sort_cells
\* the comparator of sort_cells: cell_x, then cell_y, then lod
CellLess(a, b) ==
  LET ax == CellX(a.cell_id)
      ay == CellY(a.cell_id)
      bx == CellX(b.cell_id)
      by == CellY(b.cell_id)
  IN IF ax # bx THEN ax < bx
     ELSE IF ay # by THEN ay < by
     ELSE a.lod < b.lod

\* the mutant compares the packed ids numerically (cell_y first)
RECURSIVE sort_cells_by_id(_)
sort_cells_by_id(cells) ==
  IF cells = <<>> THEN <<>>
  ELSE LET L(a, b) == \/ IdLess(a.cell_id, b.cell_id)
                      \/ (a.cell_id = b.cell_id /\ a.lod < b.lod)
           i == CHOOSE i \in 1..Len(cells) :
                  \A j \in 1..Len(cells) : ~L(cells[j], cells[i])
       IN <<cells[i]>> \o
          sort_cells_by_id([j \in 1..(Len(cells) - 1) |->
                              IF j < i THEN cells[j] ELSE cells[j + 1]])

\* std::sort with that comparator (selection of a minimal element)
RECURSIVE sort_cells(_)
sort_cells(cells) ==
  IF cells = <<>> THEN <<>>
  ELSE LET i == CHOOSE i \in 1..Len(cells) :
                  \A j \in 1..Len(cells) : ~CellLess(cells[j], cells[i])
       IN <<cells[i]>> \o
          sort_cells([j \in 1..(Len(cells) - 1) |->
                        IF j < i THEN cells[j] ELSE cells[j + 1]])

\* ----------------------------------------------------- GridEncoder::encode
\* cells_vec: the grid's cells in map order
CellsVec == grid.cells

RECURSIVE EncodeRows(_, _, _)
EncodeRows(indices, bufs, has_sh) ==
  IF indices = <<>> THEN bufs
  ELSE EncodeRows(Tail(indices), encode_splat_view(bufs, has_sh), has_sh)

\* the mutant tags every blob with LOD 0
EncodeOneCell_lod0(cell_idx, indices, l, has_sh) ==
  LET bufs == EncodeRows(indices, [data |-> 0, shcoef |-> 0], has_sh)
  IN [cell_id |-> cell_idx, lod |-> 0, count |-> Len(indices),
      data |-> bufs.data, shcoef |-> bufs.shcoef, rows |-> indices]

\* the body of the cell loop for a non-empty cell
EncodeOneCell(cell_idx, indices, l, has_sh) ==
  LET bufs == EncodeRows(indices, [data |-> 0, shcoef |-> 0], has_sh)
  IN [cell_id |-> cell_idx, lod |-> l, count |-> Len(indices),
      data |-> bufs.data, shcoef |-> bufs.shcoef, rows |-> indices]

EncodeBegin ==
  /\ pc = "grid_done"
  /\ thread_cells' = [t \in Threads |-> <<>>]
  /\ lod' = 0
  /\ nextIter' = 0
  /\ result' = [num_lods |-> NumLods, has_sh |-> grid.has_sh, cells |-> <<>>,
                total_splats |-> 0]
  /\ pc' = "enc_par"
  /\ UNCHANGED <<lod_files, n_threads, grid, chunk, nextRow, local_grids,
                 out, app, fn>>

\* schedule(dynamic): the next iteration goes to whichever thread asks
EncodeCell(t) ==
  /\ pc = "enc_par"
  /\ nextIter < Len(CellsVec)
  /\ LET e == CellsVec[nextIter + 1]
         indices == e.v.splat_indices[lod + 1]
     IN IF indices = <<>>
        THEN UNCHANGED <<thread_cells, result>>
        ELSE /\ thread_cells' =
                  [thread_cells EXCEPT
                     ![t] = Append(@, EncodeOneCell(e.k, indices, lod, result.has_sh))]
             /\ UNCHANGED result
  /\ nextIter' = nextIter + 1
  /\ UNCHANGED <<pc, lod_files, n_threads, grid, lod, chunk, nextRow,
                 local_grids, out, app, fn>>

\* end of one LOD's parallel region
EncodeNextLod ==
  /\ pc = "enc_par"
  /\ nextIter = Len(CellsVec)
  /\ lod + 1 < NumLods
  /\ lod' = lod + 1
  /\ nextIter' = 0
  /\ UNCHANGED <<pc, lod_files, n_threads, grid, chunk, nextRow, local_grids,
                 thread_cells, result, out, app, fn>>

\* after the last LOD: merge the thread-local lists and sort
EncodeFinish ==
  /\ pc = "enc_par"
  /\ nextIter = Len(CellsVec)
  /\ lod + 1 = NumLods
  /\ LET all == Concat(thread_cells)
     IN result' = [result EXCEPT
                     !.total_splats = SeqSum([i \in 1..Len(all) |-> all[i].count]),
                     !.cells = sort_cells(all)]
  /\ pc' = "encoded"
  /\ UNCHANGED <<lod_files, n_threads, grid, lod, chunk, nextRow, local_grids,
                 nextIter, thread_cells, out, app, fn>>

EncodeNext ==
  EncodeBegin \/ (\E t \in Threads : EncodeCell(t)) \/ EncodeNextLod \/ EncodeFinish

\* --------------------------------------------------- LccData::build_index
ZeroNode ==
  [splat_count |-> 0, data_offset |-> 0, data_size |-> 0,
   sh_offset |-> 0, sh_size |-> 0]

\* the mutant advances the data offset by the splat count
BuildIndexStep_count(st, cell, num_lods, has_sh) ==
  IF cell.count = 0 THEN st
  ELSE
    LET fresh == cell.cell_id # st.current_cell_id
        units1 == IF fresh
                  THEN Append(st.units,
                              [index |-> cell.cell_id,
                               lods |-> [j \in 1..num_lods |-> ZeroNode]])
                  ELSE st.units
        node == [splat_count |-> cell.count,
                 data_offset |-> st.data_offset,
                 data_size |-> cell.data,
                 sh_offset |-> 0, sh_size |-> 0]
    IN [units |-> [units1 EXCEPT ![Len(units1)].lods[cell.lod + 1] = node],
        current_cell_id |-> cell.cell_id,
        open |-> TRUE,
        data_offset |-> st.data_offset + cell.count,
        sh_offset |-> st.sh_offset,
        null_deref |-> st.null_deref]

\* st: units so far, current_cell_id, whether current_unit is non-null, the
\* two running offsets, and whether a null current_unit was dereferenced.
\* The uint32 casts of the counts and sizes are the identity on every value
\* below 2^31.
BuildIndexStep(st, cell, num_lods, has_sh) ==
  IF cell.count = 0 THEN st
  ELSE
    LET fresh == cell.cell_id # st.current_cell_id
        units1 == IF fresh
                  THEN Append(st.units,
                              [index |-> cell.cell_id,
                               lods |-> [j \in 1..num_lods |-> ZeroNode]])
                  ELSE st.units
        open == st.open \/ fresh
        sh == has_sh /\ cell.shcoef # 0
        node == [splat_count |-> cell.count,
                 data_offset |-> st.data_offset,
                 data_size |-> cell.data,
                 sh_offset |-> IF sh THEN st.sh_offset ELSE 0,
                 sh_size |-> IF sh THEN cell.shcoef ELSE 0]
    IN IF ~open
       THEN [st EXCEPT !.null_deref = TRUE]
       ELSE [units |-> [units1 EXCEPT ![Len(units1)].lods[cell.lod + 1] = node],
             current_cell_id |-> cell.cell_id,
             open |-> TRUE,
             data_offset |-> st.data_offset + cell.data,
             sh_offset |-> IF sh THEN st.sh_offset + cell.shcoef ELSE st.sh_offset,
             null_deref |-> st.null_deref]

RECURSIVE BuildIndexLoop(_, _, _, _)
BuildIndexLoop(st, cells, num_lods, has_sh) ==
  IF cells = <<>> THEN st
  ELSE BuildIndexLoop(BuildIndexStep(st, Head(cells), num_lods, has_sh),
                      Tail(cells), num_lods, has_sh)

build_index(data) ==
  BuildIndexLoop([units |-> <<>>, current_cell_id |-> UINT32_MAX, open |-> FALSE,
                  data_offset |-> 0, sh_offset |-> 0, null_deref |-> FALSE],
                 data.cells, data.num_lods, data.has_sh)

\* ------------------------------------------------------------- LccWriter
\* a file is the sequence of the blobs written to it: whose blob, how long
write_data_bin(data) ==
  LET Written(c) == c.count # 0
      ShWritten(c) == c.count # 0 /\ data.has_sh /\ c.shcoef # 0
      d == SelectSeq(data.cells, Written)
      h == SelectSeq(data.cells, ShWritten)
  IN [data_bin |-> [i \in 1..Len(d) |->
                      [cell_id |-> d[i].cell_id, lod |-> d[i].lod,
                       bytes |-> d[i].data, rows |-> d[i].rows]],
      shcoef_exists |-> data.has_sh,
      shcoef_bin |-> [i \in 1..Len(h) |->
                        [cell_id |-> h[i].cell_id, lod |-> h[i].lod,
                         bytes |-> h[i].shcoef]]]

\* the records of index.bin: the unit index, then per LOD the triple
\* (splat_count, data_offset, data_size)
write_index_bin(data) ==
  LET units == build_index(data).units
  IN [u \in 1..Len(units) |->
        [index |-> units[u].index,
         lods |-> [l \in 1..data.num_lods |->
                     [splat_count |-> units[u].lods[l].splat_count,
                      data_offset |-> units[u].lods[l].data_offset,
                      data_size |-> units[u].lods[l].data_size]]]]

\* LccWriter::write
Write ==
  /\ pc = "encoded"
  /\ LET f == write_data_bin(result)
     IN out' = [data_bin |-> f.data_bin, shcoef_exists |-> f.shcoef_exists,
                shcoef_bin |-> f.shcoef_bin, index_bin |-> write_index_bin(result)]
  /\ pc' = "written"
  /\ UNCHANGED <<gridVars, encVars, app, fn>>

\* ------------------------------------------------------------ ConvertApp
\* ConvertApp builds its grid with the loop of from_files
\* (buildSpatialGridParallel) and keeps the encoded cells in
\* encoded_cells_, a std::map from cell id to one EncodedCell per LOD
EmptyEncodedCell == [count |-> 0, data |-> 0, shcoef |-> 0, rows |-> <<>>]

AppEncodeBegin ==
  /\ pc = "grid_done"
  /\ app' = [encoded_cells_ |->
               [i \in 1..Len(CellsVec) |->
                  [k |-> CellsVec[i].k,
                   v |-> [l \in 1..NumLods |-> EmptyEncodedCell]]],
             has_sh_ |-> grid.has_sh,
             units_ |-> <<>>, data_bin |-> <<>>, total_splats_ |-> 0]
  /\ lod' = 0
  /\ nextIter' = 0
  /\ pc' = "app_par"
  /\ UNCHANGED <<lod_files, n_threads, grid, chunk, nextRow, local_grids,
                 thread_cells, result, out, fn>>

\* one iteration of the cell loop of encodeAllLods; the store into
\* encoded_cells_ is inside the critical section
AppEncodeCell(t) ==
  /\ pc = "app_par"
  /\ nextIter < Len(CellsVec)
  /\ LET e == CellsVec[nextIter + 1]
         indices == e.v.splat_indices[lod + 1]
         enc == EncodeOneCell(e.k, indices, lod, app.has_sh_)
         cur == MapGet(app.encoded_cells_, e.k)
     IN IF indices = <<>>
        THEN UNCHANGED app
        ELSE app' = [app EXCEPT
                       !.encoded_cells_ =
                          MapPut(@, e.k,
                                 [cur EXCEPT ![lod + 1] =
                                    [count |-> enc.count, data |-> enc.data,
                                     shcoef |-> enc.shcoef, rows |-> enc.rows]])]
  /\ nextIter' = nextIter + 1
  /\ UNCHANGED <<pc, lod_files, n_threads, grid, lod, chunk, nextRow,
                 local_grids, thread_cells, result, out, fn>>

AppEncodeNextLod ==
  /\ pc = "app_par"
  /\ nextIter = Len(CellsVec)
  /\ lod' = lod + 1
  /\ nextIter' = 0
  /\ pc' = IF lod + 1 < NumLods THEN "app_par" ELSE "app_encoded"
  /\ UNCHANGED <<lod_files, n_threads, grid, chunk, nextRow, local_grids,
                 thread_cells, result, out, app, fn>>

\* the inner loop of writeEncodedData over the LODs of one cell
RECURSIVE AppWriteLods(_, _, _, _, _)
AppWriteLods(st, cell_idx, lod_data, l, has_sh) ==
  IF l >= Len(lod_data) THEN st
  ELSE
    LET enc == lod_data[l + 1]
    IN IF enc.count = 0
       THEN AppWriteLods(st, cell_idx, lod_data, l + 1, has_sh)
       ELSE
         LET node == [splat_count |-> enc.count,
                      data_offset |-> st.data_offset,
                      data_size |-> enc.data,
                      sh_offset |-> IF has_sh THEN st.sh_offset ELSE 0,
                      sh_size |-> IF has_sh THEN enc.shcoef ELSE 0]
         IN AppWriteLods(
              [unit |-> [st.unit EXCEPT !.lods[l + 1] = node],
               data_bin |-> Append(st.data_bin,
                                   [cell_id |-> cell_idx, lod |-> l,
                                    bytes |-> enc.data, rows |-> enc.rows]),
               data_offset |-> st.data_offset + enc.data,
               sh_offset |-> IF has_sh THEN st.sh_offset + enc.shcoef
                             ELSE st.sh_offset,
               total_splats_ |-> st.total_splats_ + enc.count,
               units_ |-> st.units_],
              cell_idx, lod_data, l + 1, has_sh)

\* the outer loop: the cells in the iteration order of the std::map
RECURSIVE AppWriteCells(_, _, _, _)
AppWriteCells(st, cells, num_lods, has_sh) ==
  IF cells = <<>> THEN st
  ELSE
    LET e == Head(cells)
        st0 == [st EXCEPT !.unit = [index |-> e.k,
                                    lods |-> [j \in 1..num_lods |-> ZeroNode]]]
        st1 == AppWriteLods(st0, e.k, e.v, 0, has_sh)
    IN AppWriteCells([st1 EXCEPT !.units_ = Append(@, st1.unit)],
                     Tail(cells), num_lods, has_sh)

\* ConvertApp::writeEncodedData
writeEncodedData ==
  /\ pc = "app_encoded"
  /\ LET st == AppWriteCells(
                 [unit |-> None, data_bin |-> <<>>, data_offset |-> 0,
                  sh_offset |-> 0, total_splats_ |-> app.total_splats_,
                  units_ |-> app.units_],
                 app.encoded_cells_, NumLods, app.has_sh_)
     IN app' = [app EXCEPT !.units_ = st.units_, !.data_bin = st.data_bin,
                           !.total_splats_ = st.total_splats_]
  /\ pc' = "app_written"
  /\ UNCHANGED <<gridVars, encVars, out, fn>>

AppNext ==
  AppEncodeBegin \/ (\E t \in Threads : AppEncodeCell(t)) \/ AppEncodeNextLod
    \/ writeEncodedData

SpecApp == Init /\ [][GridNext \/ AppNext]_vars

Next == GridNext \/ EncodeNext \/ Write

Spec == Init /\ [][Next]_vars

\* ------------------------------------------ compute_cell_index on its own
\* the pipeline variables while a pure function is under check
PipelineIdle ==
  /\ lod_files = <<>>
  /\ n_threads = 1
  /\ grid = NoGrid
  /\ lod = 0
  /\ chunk = <<>>
  /\ nextRow = <<>>
  /\ local_grids = <<>>
  /\ nextIter = 0
  /\ thread_cells = <<>>
  /\ result = None
  /\ out = None
  /\ app = None

\* coordinates below, inside and far beyond the 65536 cells of the grid
CoordsX == {-61, -1, 0, 29, 30, 1966079, 1966080, 2000000000}
CoordsY == {-30, 0, 59, 1966050, 1966051}
CellSizes == {1, DefaultCellSize}

InitCell ==
  /\ pc = "cell"
  /\ PipelineIdle
  /\ fn \in [pos : [x : CoordsX, y : CoordsY, z : {0, 9}],
             bbox_min : {[x |-> 0, y |-> 0, z |-> 0], [x |-> -30, y |-> 1, z |-> -4]},
             csx : CellSizes, csy : CellSizes]

ComputeCellIndex ==
  /\ pc = "cell"
  /\ fn' = [pos |-> fn.pos, bbox_min |-> fn.bbox_min, csx |-> fn.csx, csy |-> fn.csy,
            id |-> compute_cell_index(fn.bbox_min, fn.csx, fn.csy, fn.pos)]
  /\ pc' = "cell_done"
  /\ UNCHANGED <<gridVars, encVars, out, app>>

SpecCell == InitCell /\ [][ComputeCellIndex]_vars

\* ----------------------------------------------------------- fixed point
\* float values of the quantisers are fixed-point numbers with FixScale
\* units to 1.0
FixScale == 10000
Rsqrt2 == 7071
Sqrt2 == 14142

Abs(a) == IF a < 0 THEN -a ELSE a

\* integer square root by bisection: the largest r in lo..hi with r*r <= n
RECURSIVE ISqrt(_, _, _)
ISqrt(n, lo, hi) ==
  IF lo >= hi THEN lo
  ELSE LET mid == (lo + hi + 1) \div 2
       IN IF mid * mid <= n THEN ISqrt(n, mid, hi) ELSE ISqrt(n, lo, mid - 1)

\* division of fixed-point values, rounding toward zero
QuotFix(a, b) == IF a < 0 THEN -((-a) \div b) ELSE a \div b

ClampFix(v, lo, hi) == IF v < lo THEN lo ELSE IF v > hi THEN hi ELSE v

\* a 32-bit word from its low 30 bits and its two top bits, as 16-bit halves
Word32(low30, top2) ==
  [hi |-> (low30 \div 65536) + (top2 % 4) * 16384, lo |-> low30 % 65536]

\* bit fields of a word given by its halves
Bits0_9(w) == w.lo % 1024
Bits10_19(w) == (w.lo \div 1024) + (w.hi % 16) * 64
Bits20_29(w) == (w.hi \div 16) % 1024
Bits30_31(w) == w.hi \div 16384

\* -------------------------------------------------------- encode_rotation
\* the mutant keeps the (w,x,y,z) index as the stored index
wxyz_to_lcc_idx_identity(i) == i

\* static const int wxyz_to_lcc_idx[4] = {3, 0, 1, 2}
wxyz_to_lcc_idx(i) == <<3, 0, 1, 2>>[i + 1]

\* static const int order[4][3]: indices into (w,x,y,z)
RotOrder(lcc_idx) ==
  << <<2, 3, 0>>, <<1, 3, 0>>, <<1, 2, 0>>, <<1, 2, 3>> >>[lcc_idx + 1]

\* the quaternion divided by its length (left alone when the length is 0);
\* rot is (w, x, y, z) in whole units, the result is fixed-point
NormalizeQuat(rot) ==
  LET sq == rot[1] * rot[1] + rot[2] * rot[2] + rot[3] * rot[3] + rot[4] * rot[4]
      len == ISqrt(sq * FixScale * FixScale, 0, 46340)
  IN IF len > 0
     THEN [i \in 1..4 |-> QuotFix(rot[i] * FixScale * FixScale, len)]
     ELSE [i \in 1..4 |-> rot[i] * FixScale]

\* index (0-based, in w,x,y,z order) of the first largest-magnitude component
RECURSIVE MaxAbsIdx(_, _, _)
MaxAbsIdx(q, i, best) ==
  IF i > 3 THEN best
  ELSE MaxAbsIdx(q, i + 1, IF Abs(q[i + 1]) > Abs(q[best + 1]) THEN i ELSE best)

encode_component(v) ==
  LET normalized == ClampFix(QuotFix((v + Rsqrt2) * FixScale, Sqrt2), 0, FixScale)
  IN (normalized * 1023 + FixScale \div 2) \div FixScale

encode_rotation(rot) ==
  LET q0 == NormalizeQuat(rot)
      max_idx_wxyz == MaxAbsIdx(q0, 1, 0)
      src == IF q0[max_idx_wxyz + 1] < 0 THEN [i \in 1..4 |-> -q0[i]] ELSE q0
      lcc_idx == wxyz_to_lcc_idx(max_idx_wxyz)
      enc == [i \in 1..3 |-> src[RotOrder(lcc_idx)[i] + 1]]
      p0 == encode_component(enc[1])
      p1 == encode_component(enc[2])
      p2 == encode_component(enc[3])
  IN Word32(p0 + p1 * 1024 + p2 * 1048576, lcc_idx)

QuatParts == -2..2

InitRot ==
  /\ pc = "rot"
  /\ PipelineIdle
  /\ fn \in [rot : [1..4 -> QuatParts]]

EncodeRotation ==
  /\ pc = "rot"
  /\ fn' = [rot |-> fn.rot, word |-> encode_rotation(fn.rot)]
  /\ pc' = "rot_done"
  /\ UNCHANGED <<gridVars, encVars, out, app>>

SpecRot == InitRot /\ [][EncodeRotation]_vars

\* ------------------------------------------------- SH ranges and packing
\* std::numeric_limits<float>::max(), the start value of every minimum
FltMax == 2000000000

\* AttributeRanges(): the SH part
DefaultShRanges ==
  [sh_min |-> <<FltMax, FltMax, FltMax>>, sh_max |-> <<-FltMax, -FltMax, -FltMax>>]

\* AttributeRanges::expand_sh
expand_sh(rg, r, g, b) ==
  [sh_min |-> <<Min2(rg.sh_min[1], r), Min2(rg.sh_min[2], g), Min2(rg.sh_min[3], b)>>,
   sh_max |-> <<Max2(rg.sh_max[1], r), Max2(rg.sh_max[2], g), Max2(rg.sh_max[3], b)>>]

\* the band loop of pass 2 on one row; f_rest is 0-based in the source
RECURSIVE ExpandBands(_, _, _, _)
ExpandBands(rg, f_rest, band, bands_per_channel) ==
  IF band >= bands_per_channel THEN rg
  ELSE ExpandBands(expand_sh(rg, f_rest[band + 1],
                             f_rest[band + bands_per_channel + 1],
                             f_rest[band + 2 * bands_per_channel + 1]),
                   f_rest, band + 1, bands_per_channel)

\* normalize() of encode_sh_triplet followed by the quantisation to `levels`
ShQuant(v, sh_min, sh_max, levels) ==
  LET range == sh_max - sh_min
  IN IF range <= 0 THEN (levels + 1) \div 2
     ELSE (ClampFix(v - sh_min, 0, range) * levels * 2 + range) \div (2 * range)

\* r_enc | (g_enc << 11) | (b_enc << 21), as 16-bit halves
encode_sh_triplet(r, g, b, sh_min, sh_max) ==
  LET r_enc == ShQuant(r, sh_min, sh_max, 2047)
      g_enc == ShQuant(g, sh_min, sh_max, 1023)
      b_enc == ShQuant(b, sh_min, sh_max, 2047)
      low == r_enc + g_enc * 2048
  IN [hi |-> (low \div 65536) + b_enc * 32, lo |-> low % 65536]

\* the fixed channel stride of encode_sh_coefficients (g_coeffs = f_rest + 15)
PackerBands == 15

\* f_rest is the 45-slot array; the 16th word is padding
encode_sh_coefficients(f_rest, sh_min, sh_max) ==
  [i \in 1..16 |->
     IF i = 16 THEN [hi |-> 0, lo |-> 0]
     ELSE encode_sh_triplet(f_rest[i], f_rest[PackerBands + i],
                            f_rest[2 * PackerBands + i], sh_min, sh_max)]

\* the SH branch of encode_splat_view: the row's f_rest copied into 45 slots,
\* zero filled, and packed against ranges.sh_min.x and ranges.sh_max.x
ShRangeUsed(ranges) == [sh_min |-> ranges.sh_min[1], sh_max |-> ranges.sh_max[1]]

encode_splat_view_sh(f_rest, num_f_rest, ranges) ==
  LET slots == [i \in 1..ShSlots |-> IF i <= num_f_rest THEN f_rest[i] ELSE 0]
      used == ShRangeUsed(ranges)
  IN encode_sh_coefficients(slots, used.sh_min, used.sh_max)

\* the SH branch of encode_environment, which collapses its bounds to scalars
EnvShRangeUsed(bounds) ==
  [sh_min |-> Min2(bounds.sh_min[1], Min2(bounds.sh_min[2], bounds.sh_min[3])),
   sh_max |-> Max2(bounds.sh_max[1], Max2(bounds.sh_max[2], bounds.sh_max[3]))]

ChannelStarts == {-3, 0, 15, 30}

\* compute_sh_degree: the f_rest counts of SH degrees 1 to 4
ShCounts == {9, 24, ShSlots, 72}

\* one row whose f_rest block is [R_1..R_B, G_1..G_B, B_1..B_B], channel C
\* starting at c0[C] and rising by step per band
ShRow(c0, step, nfr) ==
  LET B == nfr \div 3
  IN [i \in 1..nfr |-> c0[((i - 1) \div B) + 1] + ((i - 1) % B) * step]

InitSH ==
  /\ pc = "sh"
  /\ PipelineIdle
  /\ \E c0 \in [1..3 -> ChannelStarts], step \in {0, 1}, nfr \in ShCounts :
       fn = [f_rest |-> ShRow(c0, step, nfr), num_f_rest |-> nfr]

\* pass 2 of from_files on the row: the global SH ranges
AggregateShRanges ==
  /\ pc = "sh"
  /\ LET bands_per_channel == IF fn.num_f_rest > 0 THEN fn.num_f_rest \div 3 ELSE 0
     IN fn' = [f_rest |-> fn.f_rest, num_f_rest |-> fn.num_f_rest,
               bands_per_channel |-> bands_per_channel,
               ranges |-> ExpandBands(DefaultShRanges, fn.f_rest, 0, bands_per_channel)]
  /\ pc' = "sh_ranged"
  /\ UNCHANGED <<gridVars, encVars, out, app>>

\* the main encoder and the environment encoder on the same row and ranges
EncodeSH ==
  /\ pc = "sh_ranged"
  /\ fn' = [f_rest |-> fn.f_rest, num_f_rest |-> fn.num_f_rest, ranges |-> fn.ranges,
            bands_per_channel |-> fn.bands_per_channel,
            sh_range |-> ShRangeUsed(fn.ranges),
            env_sh_range |-> EnvShRangeUsed(fn.ranges),
            sh_enc |-> encode_splat_view_sh(fn.f_rest, fn.num_f_rest, fn.ranges)]
  /\ pc' = "sh_done"
  /\ UNCHANGED <<gridVars, encVars, out, app>>

SpecSH == InitSH /\ [][AggregateShRanges \/ EncodeSH]_vars

\* =================================================================== claims
GridBuilt == pc \notin {"pass1", "fork", "par"}
Encoded == pc \in {"encoded", "written"}

\* number of times row i occurs in the list s
Occurs(s, i) == Cardinality({j \in 1..Len(s) : s[j] = i})

LodRows(l) == lod_files[l + 1].rows

CellOf(pos) ==
  compute_cell_index(grid.bbox_min, DefaultCellSize, DefaultCellSize, pos)

\* C1: after from_files, every row index of every LOD occurs exactly once
\* among all cells' splat_indices[lod], in the cell whose id is
\* compute_cell_index of the row's position, and the lists hold nothing but
\* row indices of that LOD; for every thread count and static schedule.
C1_EachRowOnceInItsCell ==
  GridBuilt =>
    \A l \in 0..(NumLods - 1) :
      /\ \A i \in 0..(Len(LodRows(l)) - 1) :
           \A c \in 1..Len(grid.cells) :
             Occurs(grid.cells[c].v.splat_indices[l + 1], i) =
               IF grid.cells[c].k = CellOf(LodRows(l)[i + 1]) THEN 1 ELSE 0
      /\ \A i \in 0..(Len(LodRows(l)) - 1) :
           MapHas(grid.cells, CellOf(LodRows(l)[i + 1]))
      /\ \A c \in 1..Len(grid.cells) :
           /\ grid.cells[c].v.index = grid.cells[c].k
           /\ \A j \in 1..Len(grid.cells[c].v.splat_indices[l + 1]) :
                grid.cells[c].v.splat_indices[l + 1][j] \in 0..(Len(LodRows(l)) - 1)

\* two threads with non-empty blocks put their rows into the same cell
C1_Witness ==
  /\ pc = "grid_done"
  /\ n_threads >= 2
  /\ Cardinality({t \in Threads : chunk[t].lo < chunk[t].hi}) >= 2
  /\ \E c \in 1..Len(grid.cells) : Len(grid.cells[c].v.splat_indices[NumLods]) >= 2

AllThreadCells == IF pc \in {"enc_par", "encoded", "written"}
                  THEN Concat(thread_cells) ELSE <<>>

SizesRight(e, has_sh) ==
  /\ e.data = 32 * e.count
  /\ e.shcoef = IF has_sh THEN 64 * e.count ELSE 0

FileLen(f) == SeqSum([i \in 1..Len(f) |-> f[i].bytes])

\* C3: every EncodedCellData has data.size() = 32 * count and shcoef.size() =
\* 64 * count in Quality mode, 0 in Portable mode; data.bin is 32 *
\* total_splats bytes, shcoef.bin exists only in Quality mode and is then 64 *
\* total_splats bytes, so |data.bin| / 32 = |shcoef.bin| / 64.
C3_BlobSizes ==
  /\ \A i \in 1..Len(AllThreadCells) : SizesRight(AllThreadCells[i], result.has_sh)
  /\ Encoded =>
       /\ \A i \in 1..Len(result.cells) : SizesRight(result.cells[i], result.has_sh)
       /\ result.total_splats = Len(AllRows)
  /\ pc = "written" =>
       /\ FileLen(out.data_bin) = 32 * result.total_splats
       /\ out.shcoef_exists = result.has_sh
       /\ ~result.has_sh => out.shcoef_bin = <<>>
       /\ result.has_sh =>
            /\ FileLen(out.shcoef_bin) = 64 * result.total_splats
            /\ FileLen(out.data_bin) \div 32 = FileLen(out.shcoef_bin) \div 64

\* a Portable run with several blobs has been written
C3_Witness ==
  /\ pc = "written"
  /\ ~result.has_sh
  /\ Len(out.data_bin) >= 2
  /\ result.total_splats >= 3

\* the LOD entries of index.bin that are not all-zero, unit by unit
IndexEntry(cell_id, l) ==
  LET u == CHOOSE u \in 1..Len(out.index_bin) : out.index_bin[u].index = cell_id
  IN out.index_bin[u].lods[l + 1]

NonEmptyEntries ==
  {<<u, l>> \in (1..Len(out.index_bin)) \X (1..NumLods) :
     out.index_bin[u].lods[l].splat_count # 0}

PrefixLen(f, k) == SeqSum([i \in 1..(k - 1) |-> f[i].bytes])

\* C4: each blob of data.bin has its entry in index.bin; in the order the
\* blobs are written the first data_offset is 0, the offsets never decrease,
\* offset + size of one entry is the offset of the next, the data_size values
\* add up to the length of data.bin, and the entries left all-zero are exactly
\* the (cell, LOD) pairs for which no blob was written.
C4_IndexOffsets ==
  pc = "written" =>
    /\ \A k \in 1..Len(out.data_bin) :
         /\ \E u \in 1..Len(out.index_bin) :
              out.index_bin[u].index = out.data_bin[k].cell_id
         /\ IndexEntry(out.data_bin[k].cell_id, out.data_bin[k].lod).data_offset
              = PrefixLen(out.data_bin, k)
         /\ IndexEntry(out.data_bin[k].cell_id, out.data_bin[k].lod).data_size
              = out.data_bin[k].bytes
         /\ IndexEntry(out.data_bin[k].cell_id, out.data_bin[k].lod).splat_count # 0
    /\ \A k \in 1..(Len(out.data_bin) - 1) :
         LET a == IndexEntry(out.data_bin[k].cell_id, out.data_bin[k].lod)
             b == IndexEntry(out.data_bin[k + 1].cell_id, out.data_bin[k + 1].lod)
         IN a.data_offset <= b.data_offset /\ a.data_offset + a.data_size = b.data_offset
    /\ Cardinality(NonEmptyEntries) = Len(out.data_bin)
    /\ \A u \in 1..Len(out.index_bin), l \in 1..NumLods :
         <<u, l>> \notin NonEmptyEntries =>
           out.index_bin[u].lods[l] =
             [splat_count |-> 0, data_offset |-> 0, data_size |-> 0]

\* three blobs, one cell with an empty LOD entry
C4_Witness ==
  /\ pc = "written"
  /\ Len(out.data_bin) >= 3
  /\ \E u \in 1..Len(out.index_bin), l \in 1..NumLods :
       out.index_bin[u].lods[l].splat_count = 0

\* the (cell_x, cell_y) comparator on packed ids
IdLessXY(a, b) ==
  CellX(a) < CellX(b) \/ (CellX(a) = CellX(b) /\ CellY(a) < CellY(b))

OccupiedPairs ==
  {<<grid.cells[c].k, l>> : c \in 1..Len(grid.cells), l \in 0..(NumLods - 1)}
    \cap {p \in MapKeys(grid.cells) \X (0..(NumLods - 1)) :
            MapGet(grid.cells, p[1]).splat_indices[p[2] + 1] # <<>>}

C7_AppWritesInCellXOrder ==
  pc = "app_written" =>
    /\ \A k \in 1..(Len(app.data_bin) - 1) :
         CellLess(app.data_bin[k], app.data_bin[k + 1])
    /\ \A u \in 1..(Len(app.units_) - 1) :
         IdLessXY(app.units_[u].index, app.units_[u + 1].index)

\* C2: compute_cell_index returns (cell_y << 16) | cell_x with cell_x =
\* clamp(floor((pos.x - bbox.min.x) / cell_size_x), 0, 65535) and cell_y the
\* same on Y; cell_x stays in the low 16 bits and pos.z has no influence.
\* (Stated for quotients a 32-bit int holds.)
FloorClamped(d, cs, c) ==
  IF d < 0 THEN c = 0
  ELSE IF d >= 65535 * cs THEN c = 65535
  ELSE c * cs <= d /\ d < (c + 1) * cs

C2_CellIndex ==
  pc = "cell_done" =>
    /\ FloorClamped(fn.pos.x - fn.bbox_min.x, fn.csx, fn.id.lo)
    /\ FloorClamped(fn.pos.y - fn.bbox_min.y, fn.csy, fn.id.hi)
    /\ fn.id.lo \in 0..65535 /\ fn.id.hi \in 0..65535
    /\ \A z \in {-7, 0, 123456} :
         compute_cell_index(fn.bbox_min, fn.csx, fn.csy, [fn.pos EXCEPT !.z = z]) = fn.id

\* a position below the box on Y and beyond the last cell on X
C2_Witness ==
  /\ pc = "cell_done"
  /\ fn.pos.y < fn.bbox_min.y
  /\ (fn.pos.x - fn.bbox_min.x) \div fn.csx > 65536
  /\ fn.id = [hi |-> 0, lo |-> 65535]

\* C8: bits 30-31 hold j = {0->3, 1->0, 2->1, 3->2}[i] for i the index of the
\* largest-magnitude component in (w,x,y,z) order; bits 0-9, 10-19, 20-29 hold
\* the quantised components chosen by j (0: y,z,w; 1: x,z,w; 2: x,y,w;
\* 3: x,y,z) of the quaternion negated as a whole when component i was
\* negative; the dropped component i is none of the three emitted.
C8_Table == [i \in 0..3 |-> CASE i = 0 -> 3 [] i = 1 -> 0 [] i = 2 -> 1 [] i = 3 -> 2]

\* the emitted components per j, as positions in (w,x,y,z): w=1, x=2, y=3, z=4
C8_Emitted ==
  [j \in 0..3 |-> CASE j = 0 -> <<3, 4, 1>> [] j = 1 -> <<2, 4, 1>>
                    [] j = 2 -> <<2, 3, 1>> [] j = 3 -> <<2, 3, 4>>]

C9_IdentityIndexZero ==
  (pc = "rot_done" /\ fn.rot[1] > 0 /\ fn.rot[2] = 0 /\ fn.rot[3] = 0 /\ fn.rot[4] = 0) =>
    /\ Bits30_31(fn.word) = 0
    /\ Abs(Bits0_9(fn.word) - 512) <= 2
    /\ Abs(Bits10_19(fn.word) - 512) <= 2
    /\ Abs(Bits20_29(fn.word) - 512) <= 2

\* C10: the main encoder normalises every SH value against the scalar range
\* [min(sh_min.x, sh_min.y, sh_min.z), max(sh_max.x, sh_max.y, sh_max.z)] of
\* the global ranges, the rule the environment encoder applies to its bounds.
C10_ScalarShRange ==
  pc = "sh_done" =>
    /\ fn.sh_range.sh_min = Min2(fn.ranges.sh_min[1], Min2(fn.ranges.sh_min[2], fn.ranges.sh_min[3]))
    /\ fn.sh_range.sh_max = Max2(fn.ranges.sh_max[1], Max2(fn.ranges.sh_max[2], fn.ranges.sh_max[3]))
    /\ fn.sh_range = fn.env_sh_range

\* C11: for every legal f_rest count, with B = num_f_rest / 3, the k-th packed
\* triplet of a splat is the triplet of (f_rest[k], f_rest[B + k],
\* f_rest[2B + k]), the R, G and B values of band k, and the packer's channel
\* stride is the bands_per_channel of the range-aggregation pass.
C11_BandLayout ==
  pc = "sh_done" =>
    LET B == fn.num_f_rest \div 3
    IN /\ fn.bands_per_channel = B
       /\ PackerBands = fn.bands_per_channel
       /\ \A k \in 1..Min2(B, 15) :
            fn.sh_enc[k] = encode_sh_triplet(fn.f_rest[k], fn.f_rest[B + k],
                                             fn.f_rest[2 * B + k],
                                             fn.sh_range.sh_min, fn.sh_range.sh_max)

\* ------------------------------------------------------------ encode_scale
\* log-scales are whole multiples of ln 2, so that std::exp is exact:
\* exp(k * ln 2) = 2^k, held in quarters (2^(k + 2))
LogScales == -2..2

RECURSIVE Pow2(_)
Pow2(n) == IF n <= 0 THEN 1 ELSE 2 * Pow2(n - 1)

ExpQ(k) == Pow2(k + 2)

\* (scale_min[i], scale_max[i]) in quarters: a proper range that holds every
\* value, a narrow one, a single point and an inverted one
ScaleRanges == {<<1, 16>>, <<2, 8>>, <<4, 4>>, <<16, 1>>}

\* the loop body with the clamp left out
encode_scale_noclamp(log_scale, scale_min, scale_max) ==
  [i \in 1..3 |->
     LET linear == ExpQ(log_scale[i])
         range == scale_max[i] - scale_min[i]
     IN IF range > 0
        THEN ((linear - scale_min[i]) * 65535 * 2 + range) \div (2 * range)
        ELSE 0]

\* encode_scale: normalized * 65535.0f + 0.5f truncated to uint16_t
encode_scale(log_scale, scale_min, scale_max) ==
  [i \in 1..3 |->
     LET linear == ExpQ(log_scale[i])
         range == scale_max[i] - scale_min[i]
         normalized == IF range > 0 THEN ClampFix(linear - scale_min[i], 0, range) ELSE 0
         den == IF range > 0 THEN range ELSE 1
     IN ((normalized * 65535 * 2 + den) \div (2 * den)) % 65536]

InitScale ==
  /\ pc = "scale"
  /\ PipelineIdle
  /\ \E ls \in [1..3 -> LogScales], rg \in [1..3 -> ScaleRanges] :
       fn = [log_scale |-> ls,
             scale_min |-> [i \in 1..3 |-> rg[i][1]],
             scale_max |-> [i \in 1..3 |-> rg[i][2]]]

EncodeScale ==
  /\ pc = "scale"
  /\ fn' = [log_scale |-> fn.log_scale, scale_min |-> fn.scale_min,
            scale_max |-> fn.scale_max,
            out |-> encode_scale(fn.log_scale, fn.scale_min, fn.scale_max)]
  /\ pc' = "scale_done"
  /\ UNCHANGED <<gridVars, encVars, out, app>>

SpecScale == InitScale /\ [][EncodeScale]_vars

\* C12: each component of encode_scale depends on its own log-scale and its
\* own bounds only; it is 0 at or below scale_min, 65535 at or above scale_max
\* of a proper range, non-decreasing in the linear value, 0 for a degenerate
\* range, and always within 16 bits.
C12_EncodeScale ==
  pc = "scale_done" =>
    \A c \in 1..3 :
      LET linear == ExpQ(fn.log_scale[c])
          lo == fn.scale_min[c]
          hi == fn.scale_max[c]
      IN /\ fn.out[c] \in 0..65535
         /\ hi <= lo => fn.out[c] = 0
         /\ linear <= lo => fn.out[c] = 0
         /\ (hi > lo /\ linear >= hi) => fn.out[c] = 65535
         /\ \A k \in LogScales :
              k <= fn.log_scale[c] =>
                encode_scale([i \in 1..3 |-> k], fn.scale_min, fn.scale_max)[c] <= fn.out[c]
         /\ \A k \in LogScales, lo2 \in {1, 16}, hi2 \in {1, 16} :
              encode_scale([i \in 1..3 |-> IF i = c THEN fn.log_scale[c] ELSE k],
                           [i \in 1..3 |-> IF i = c THEN lo ELSE lo2],
                           [i \in 1..3 |-> IF i = c THEN hi ELSE hi2])[c] = fn.out[c]

\* one call with a component at the minimum, one at the maximum and one
\* strictly inside the range
C12_Witness ==
  /\ pc = "scale_done"
  /\ fn.log_scale = <<-2, 2, 0>>
  /\ fn.scale_min = <<1, 1, 1>>
  /\ fn.scale_max = <<16, 16, 16>>
  /\ fn.out = <<0, 65535, 13107>>

\* ------------------------------------------------------- collision meshes
MaxFaces == 9

\* cell sizes of a collision run: one that separates the faces of a strip, one
\* that holds six slots of a strip and one that keeps them all in one cell
CollCellSizes == {4, 24, 1000}

UnitVec(a) == [i \in 1..3 |-> IF i = a + 1 THEN 1 ELSE 0]

VAdd(p, q) == [i \in 1..3 |-> p[i] + q[i]]
VScale(k, p) == [i \in 1..3 |-> k * p[i]]

\* the slot of face i in a strip of n faces: ascending, descending, or in
\* pairs that share their three corners
StripOrders == {"asc", "desc", "pairs"}

StripPos(order, n, i) ==
  IF order = "asc" THEN i
  ELSE IF order = "desc" THEN n - 1 - i
  ELSE i \div 2

\* the three corners of the face in slot p of a strip along axis a
StripCorners(a, p) ==
  LET base == VScale(4 * p, UnitVec(a))
  IN <<base, VAdd(base, VScale(3, UnitVec(a))), VAdd(base, VScale(3, UnitVec((a + 1) % 3)))>>

\* a triangle far out along x, in column 65536 of the grid of cell size cs
FarCorners(cs) ==
  LET base == <<65536 * cs, 0, 0>>
  IN <<base, VAdd(base, <<3, 0, 0>>), VAdd(base, <<0, 3, 0>>)>>

\* a mesh as read_mesh returns it: every face has three vertices of its own;
\* the second face of a pair lists the corners of the first one rotated
StripMesh(n, a, order, cs, far) ==
  LET corners(i) ==
        LET c == StripCorners(a, StripPos(order, n, i))
        IN IF order = "pairs" /\ i % 2 = 1 THEN <<c[2], c[3], c[1]>> ELSE c
      nf == IF far THEN n + 1 ELSE n
      tri(i) == IF i < n THEN corners(i) ELSE FarCorners(cs)
  IN [vertices |-> [j \in 1..(3 * nf) |-> tri((j - 1) \div 3)[((j - 1) % 3) + 1]],
      faces |-> [i \in 1..nf |-> [v0 |-> 3 * (i - 1), v1 |-> 3 * (i - 1) + 1,
                                  v2 |-> 3 * (i - 1) + 2]]]

\* static_cast<int> of a float quotient with a positive divisor
TruncDiv(a, b) == IF a >= 0 THEN a \div b ELSE -((-a) \div b)

\* BBox() expanded by every vertex
RECURSIVE CollBBox(_, _, _)
CollBBox(vertices, i, bb) ==
  IF i > Len(vertices) THEN bb
  ELSE CollBBox(vertices, i + 1,
                [min |-> [a \in 1..3 |-> Min2(bb.min[a], vertices[i][a])],
                 max |-> [a \in 1..3 |-> Max2(bb.max[a], vertices[i][a])]])

EmptyBBox == [min |-> <<FltMax, FltMax, FltMax>>, max |-> <<-FltMax, -FltMax, -FltMax>>]

\* the cell index partition_by_cell gives a triangle; centroid = sum / 3
TriCellIdx(vertices, tri, bbox, cell_size_x, cell_size_y) ==
  LET v0 == vertices[tri.v0 + 1]
      v1 == vertices[tri.v1 + 1]
      v2 == vertices[tri.v2 + 1]
      cx0 == TruncDiv((v0[1] + v1[1] + v2[1]) - 3 * bbox.min[1], 3 * cell_size_x)
      cy0 == TruncDiv((v0[2] + v1[2] + v2[2]) - 3 * bbox.min[2], 3 * cell_size_y)
      cell_x == IF cx0 < 0 THEN 0 ELSE cx0
      cell_y == IF cy0 < 0 THEN 0 ELSE cy0
  IN PackId(cell_y, cell_x)

\* the mutant appends every vertex without looking for it
get_local_idx_append(cverts, v) == [idx |-> Len(cverts), vertices |-> Append(cverts, v)]

\* get_local_idx: the position of v in the cell's vertex list, appended if new
get_local_idx(cverts, v) ==
  IF \E i \in 1..Len(cverts) : cverts[i] = v
  THEN [idx |-> (CHOOSE i \in 1..Len(cverts) :
                   cverts[i] = v /\ \A j \in 1..(i - 1) : cverts[j] # v) - 1,
        vertices |-> cverts]
  ELSE [idx |-> Len(cverts), vertices |-> Append(cverts, v)]

EmptyCollisionCell == [index |-> [hi |-> 0, lo |-> 0], vertices |-> <<>>, faces |-> <<>>,
                       bvh_data |-> 0, nodes |-> <<>>]

\* the loop body of partition_by_cell for one triangle
PartitionTri(vertices, tri, bbox, csx, csy, cell_map) ==
  LET cell_idx == TriCellIdx(vertices, tri, bbox, csx, csy)
      cell0 == IF MapHas(cell_map, cell_idx) THEN MapGet(cell_map, cell_idx)
               ELSE EmptyCollisionCell
      index == IF cell0.vertices = <<>> THEN cell_idx ELSE cell0.index
      l0 == get_local_idx(cell0.vertices, vertices[tri.v0 + 1])
      l1 == get_local_idx(l0.vertices, vertices[tri.v1 + 1])
      l2 == get_local_idx(l1.vertices, vertices[tri.v2 + 1])
      local_tri == [v0 |-> l0.idx, v1 |-> l1.idx, v2 |-> l2.idx]
  IN MapPut(cell_map, cell_idx,
            [index |-> index, vertices |-> l2.vertices,
             faces |-> Append(cell0.faces, local_tri),
             bvh_data |-> 0, nodes |-> <<>>])

RECURSIVE PartitionLoop(_, _, _, _, _, _, _)
PartitionLoop(vertices, faces, i, bbox, csx, csy, cell_map) ==
  IF i > Len(faces) THEN cell_map
  ELSE PartitionLoop(vertices, faces, i + 1, bbox, csx, csy,
                     PartitionTri(vertices, faces[i], bbox, csx, csy, cell_map))

\* partition_by_cell: the bounding box and the cells in ascending index order
partition_by_cell(vertices, faces, cell_size_x, cell_size_y) ==
  LET bbox == CollBBox(vertices, 1, EmptyBBox)
      cell_map == PartitionLoop(vertices, faces, 1, bbox, cell_size_x, cell_size_y, <<>>)
  IN [bbox |-> bbox, cells |-> [i \in 1..Len(cell_map) |-> cell_map[i].v]]

\* ------------------------------------------------------------------- BVH
MAX_LEAF_SIZE == 4
LEAF_FLAG == 65535
BvhInf == 1000000000
BvhNodeBytes == 32
BvhHeaderBytes == 16

\* parent_idx of the root entry (UINT32_MAX in the source)
NoParent == -1

make_internal(bmin, bmax, right, axis) ==
  [bbox_min |-> bmin, bbox_max |-> bmax, data0 |-> right, data1 |-> axis % 65536,
   flags |-> 0]

\* the mutant leaves the leaf flag out
make_leaf_noflag(bmin, bmax, offset, count) ==
  [bbox_min |-> bmin, bbox_max |-> bmax, data0 |-> offset, data1 |-> count % 65536,
   flags |-> 0]

make_leaf(bmin, bmax, offset, count) ==
  [bbox_min |-> bmin, bbox_max |-> bmax, data0 |-> offset, data1 |-> count % 65536,
   flags |-> LEAF_FLAG]

compute_triangle_bbox(verts, tri) ==
  LET v0 == verts[tri.v0 + 1]
      v1 == verts[tri.v1 + 1]
      v2 == verts[tri.v2 + 1]
  IN [bmin |-> [a \in 1..3 |-> Min2(v0[a], Min2(v1[a], v2[a]))],
      bmax |-> [a \in 1..3 |-> Max2(v0[a], Max2(v1[a], v2[a]))]]

\* three times the centroid: the division by 3.0f keeps the order
compute_centroid(verts, tri, axis) ==
  verts[tri.v0 + 1][axis + 1] + verts[tri.v1 + 1][axis + 1] + verts[tri.v2 + 1][axis + 1]

\* the bounds of indices[start .. start + count - 1] (0-based in the source)
RECURSIVE EntryBounds(_, _, _, _, _)
EntryBounds(cell, indices, i, last, acc) ==
  IF i > last THEN acc
  ELSE LET t == compute_triangle_bbox(cell.vertices, cell.faces[indices[i] + 1])
       IN EntryBounds(cell, indices, i + 1, last,
                      [bmin |-> [a \in 1..3 |-> Min2(acc.bmin[a], t.bmin[a])],
                       bmax |-> [a \in 1..3 |-> Max2(acc.bmax[a], t.bmax[a])]])

\* the axis of the longest extent; the first one wins a tie
BestAxis(bmin, bmax) ==
  LET e(a) == bmax[a + 1] - bmin[a + 1]
      a1 == IF e(1) > e(0) THEN 1 ELSE 0
  IN IF e(2) > e(a1) THEN 2 ELSE a1

\* the orders std::sort may leave a set of face indices in: ascending in the
\* key, equal keys in any order
RECURSIVE SortedPerms(_, _)
SortedPerms(S, key) ==
  IF S = {} THEN {<<>>}
  ELSE UNION {{<<m>> \o p : p \in SortedPerms(S \ {m}, key)} :
              m \in {x \in S : \A y \in S : key[x] <= key[y]}}

\* --------------------------------------------- CollisionEncoder::encode
InitColl ==
  /\ pc = "coll"
  /\ PipelineIdle
  /\ \E n \in 1..MaxFaces, a \in 0..2, order \in StripOrders,
        cs \in CollCellSizes, far \in BOOLEAN :
       LET mesh == StripMesh(n, a, order, cs, far)
       IN fn = [vertices |-> mesh.vertices, faces |-> mesh.faces,
                data |-> [bbox |-> EmptyBBox, cell_size_x |-> cs, cell_size_y |-> cs,
                          cells |-> <<>>],
                cur |-> 0, indices |-> <<>>, stack |-> <<>>, nodes |-> <<>>,
                face_order |-> <<>>, file |-> <<>>]

\* encode: partition_by_cell fills data.cells and data.bbox
PartitionByCell ==
  /\ pc = "coll"
  /\ LET part == partition_by_cell(fn.vertices, fn.faces,
                                   fn.data.cell_size_x, fn.data.cell_size_y)
     IN fn' = [fn EXCEPT !.data.bbox = part.bbox, !.data.cells = part.cells, !.cur = 1]
  /\ pc' = "coll_cells"
  /\ UNCHANGED <<gridVars, encVars, out, app>>

\* build_bvh up to the first stack entry; an empty cell gets the bare header
BvhBegin ==
  /\ pc = "coll_cells"
  /\ fn.cur <= Len(fn.data.cells)
  /\ LET cell == fn.data.cells[fn.cur]
     IN IF cell.faces = <<>>
        THEN /\ fn' = [fn EXCEPT !.data.cells[fn.cur].bvh_data = BvhHeaderBytes,
                                 !.cur = fn.cur + 1]
             /\ pc' = "coll_cells"
        ELSE /\ fn' = [fn EXCEPT !.indices = [i \in 1..Len(cell.faces) |-> i - 1],
                                 !.stack = <<[start |-> 0, count |-> Len(cell.faces),
                                              parent_idx |-> NoParent,
                                              is_right_child |-> FALSE]>>,
                                 !.nodes = <<>>,
                                 !.face_order = <<>>]
             /\ pc' = "bvh"
  /\ UNCHANGED <<gridVars, encVars, out, app>>

\* the mutant leaves the placeholder in the parent
update_parent_skip(nodes, entry, node_idx) == nodes

\* the right child's index goes into its parent when the child is popped
update_parent(nodes, entry, node_idx) ==
  IF entry.parent_idx # NoParent /\ entry.is_right_child
  THEN [nodes EXCEPT ![entry.parent_idx + 1].data0 = node_idx]
  ELSE nodes

\* the mutant cuts one face off
split_mid_one(count) == 1

\* the median split
split_mid(count) == count \div 2

\* one turn of the while loop of build_bvh
BvhStep ==
  /\ pc = "bvh"
  /\ fn.stack # <<>>
  /\ \E cell \in {fn.data.cells[fn.cur]}, entry \in {fn.stack[Len(fn.stack)]} :
       \E b \in {EntryBounds(cell, fn.indices, entry.start + 1, entry.start + entry.count,
                             [bmin |-> <<BvhInf, BvhInf, BvhInf>>,
                              bmax |-> <<-BvhInf, -BvhInf, -BvhInf>>])},
          stack0 \in {SubSeq(fn.stack, 1, Len(fn.stack) - 1)},
          node_idx \in {Len(fn.nodes)} :
         \E nodes0 \in {update_parent(fn.nodes, entry, node_idx)} :
           IF entry.count <= MAX_LEAF_SIZE
           THEN fn' = [fn EXCEPT
                         !.stack = stack0,
                         !.face_order = fn.face_order \o
                                        SubSeq(fn.indices, entry.start + 1,
                                               entry.start + entry.count),
                         !.nodes = Append(nodes0, make_leaf(b.bmin, b.bmax,
                                                            Len(fn.face_order), entry.count))]
           ELSE \E axis \in {BestAxis(b.bmin, b.bmax)},
                   rng \in {(entry.start + 1)..(entry.start + entry.count)},
                   mid \in {split_mid(entry.count)} :
                  \E key \in {[f \in {fn.indices[i] : i \in rng} |->
                                 compute_centroid(cell.vertices, cell.faces[f + 1], axis)]} :
                    \E sorted \in SortedPerms({fn.indices[i] : i \in rng}, key) :
                      fn' = [fn EXCEPT
                               !.indices = [i \in 1..Len(fn.indices) |->
                                              IF i \in rng THEN sorted[i - entry.start]
                                              ELSE fn.indices[i]],
                               !.nodes = Append(nodes0,
                                                make_internal(b.bmin, b.bmax, 0, axis)),
                               !.stack = stack0 \o
                                         <<[start |-> entry.start + mid,
                                            count |-> entry.count - mid,
                                            parent_idx |-> node_idx, is_right_child |-> TRUE],
                                           [start |-> entry.start, count |-> mid,
                                            parent_idx |-> node_idx,
                                            is_right_child |-> FALSE]>>]
  /\ pc' = "bvh"
  /\ UNCHANGED <<gridVars, encVars, out, app>>

\* the end of build_bvh: faces reordered by leaf order, nodes serialised
\* behind the 16 reserved bytes; encode goes on to the next cell
BvhFinish ==
  /\ pc = "bvh"
  /\ fn.stack = <<>>
  /\ LET cell == fn.data.cells[fn.cur]
         reordered_faces == [i \in 1..Len(cell.faces) |->
                               IF i <= Len(fn.face_order)
                               THEN cell.faces[fn.face_order[i] + 1]
                               ELSE [v0 |-> 0, v1 |-> 0, v2 |-> 0]]
     IN fn' = [fn EXCEPT
                 !.data.cells[fn.cur].faces = reordered_faces,
                 !.data.cells[fn.cur].bvh_data = BvhHeaderBytes + Len(fn.nodes) * BvhNodeBytes,
                 !.data.cells[fn.cur].nodes = fn.nodes,
                 !.cur = fn.cur + 1]
  /\ pc' = "coll_cells"
  /\ UNCHANGED <<gridVars, encVars, out, app>>

\* ------------------------------------------------ LccWriter::write_collision
CollMainHeaderBytes == 48
CollMeshHeaderBytes == 40

\* the mutant leaves the BVH bytes out of the sizes
RECURSIVE CollOffsets_nobvh(_, _, _)
CollOffsets_nobvh(cells, i, current_offset) ==
  IF i > Len(cells) THEN <<>>
  ELSE LET size == Len(cells[i].vertices) * 12 + Len(cells[i].faces) * 12
       IN <<[offset |-> current_offset, size |-> size]>> \o
          CollOffsets_nobvh(cells, i + 1, current_offset + size)

\* offsets[] and sizes[] of write_collision
RECURSIVE CollOffsets(_, _, _)
CollOffsets(cells, i, current_offset) ==
  IF i > Len(cells) THEN <<>>
  ELSE LET size == Len(cells[i].vertices) * 12 + Len(cells[i].faces) * 12 + cells[i].bvh_data
       IN <<[offset |-> current_offset, size |-> size]>> \o
          CollOffsets(cells, i + 1, current_offset + size)

\* the bytes of collision.lci in write order, as chunks with their lengths;
\* no file at all for an empty collision result
write_collision(collision) ==
  IF collision.cells = <<>> THEN [exists |-> FALSE]
  ELSE
    LET mesh_num == Len(collision.cells)
        header_len == CollMainHeaderBytes + CollMeshHeaderBytes * mesh_num
        os == CollOffsets(collision.cells, 1, header_len)
        head == <<[tag |-> "header", bytes |-> 12 + 24 + 8 + 4, header_len |-> header_len,
                   mesh_num |-> mesh_num, bbox |-> collision.bbox]>>
        mesh(i) == LET cell == collision.cells[i]
                   IN [tag |-> "mesh", bytes |-> 4 + 4 + 8 + 8 + 4 + 4 + 4 + 4,
                       index_x |-> CellX(cell.index), index_y |-> CellY(cell.index),
                       offset |-> os[i].offset, bytes_size |-> os[i].size,
                       vertex_num |-> Len(cell.vertices), face_num |-> Len(cell.faces),
                       bvh_size |-> cell.bvh_data]
        payload(i) == LET cell == collision.cells[i]
                      IN [tag |-> "payload", bytes |-> Len(cell.vertices) * 12 +
                                                       Len(cell.faces) * 12 + cell.bvh_data,
                          cell |-> i]
    IN [exists |-> TRUE,
        chunks |-> head \o [i \in 1..mesh_num |-> mesh(i)] \o
                   [i \in 1..mesh_num |-> payload(i)]]

WriteCollision ==
  /\ pc = "coll_cells"
  /\ fn.cur > Len(fn.data.cells)
  /\ fn' = [fn EXCEPT !.file = write_collision(fn.data)]
  /\ pc' = "coll_written"
  /\ UNCHANGED <<gridVars, encVars, out, app>>

SpecColl ==
  InitColl /\ [][PartitionByCell \/ BvhBegin \/ BvhStep \/ BvhFinish \/ WriteCollision]_vars

\* ------------------------------------------------------- collision claims
\* the cells build_bvh has finished
BuiltCells ==
  IF pc \in {"coll_cells", "coll_written"} THEN 1..(fn.cur - 1)
  ELSE IF pc = "bvh" THEN 1..(fn.cur - 1)
  ELSE {}

\* the cells as partition_by_cell left them, before any build_bvh
PartitionedCells ==
  partition_by_cell(fn.vertices, fn.faces, fn.data.cell_size_x, fn.data.cell_size_y).cells

SeqCount(sq, x) == Cardinality({i \in 1..Len(sq) : sq[i] = x})

IsPermutation(sq1, sq2) ==
  /\ Len(sq1) = Len(sq2)
  /\ \A i \in 1..Len(sq1) : SeqCount(sq1, sq1[i]) = SeqCount(sq2, sq1[i])

\* C13: after build_bvh on a cell with n >= 1 faces every node is a leaf
\* (flags 0xFFFF, 1 to 4 faces) or an internal node (flags 0, split axis 0, 1
\* or 2), every face slot of [0, n) lies in the range of exactly one leaf and
\* no leaf range leaves [0, n), and the reordered face array is a permutation
\* of the array partition_by_cell produced.
C13_BvhLeaves ==
  \A parted \in {IF BuiltCells = {} THEN <<>> ELSE PartitionedCells}, c \in BuiltCells :
    LET cell == fn.data.cells[c]
        n == Len(cell.faces)
        nodes == cell.nodes
        leaves == {k \in 1..Len(nodes) : nodes[k].flags = LEAF_FLAG}
    IN n >= 1 =>
         /\ \A k \in 1..Len(nodes) :
              \/ nodes[k].flags = LEAF_FLAG /\ nodes[k].data1 \in 1..4
              \/ nodes[k].flags = 0 /\ nodes[k].data1 \in {0, 1, 2}
         /\ \A k \in leaves : nodes[k].data0 >= 0 /\ nodes[k].data0 + nodes[k].data1 <= n
         /\ \A j \in 0..(n - 1) :
              Cardinality({k \in leaves :
                             nodes[k].data0 <= j /\ j < nodes[k].data0 + nodes[k].data1}) = 1
         /\ \A before \in {parted[c].faces} : IsPermutation(cell.faces, before)

\* a finished cell of nine faces given in descending order: two levels of
\* internal nodes, and the face array came out in another order
C13_Witness ==
  \E parted \in {IF BuiltCells = {} THEN <<>> ELSE PartitionedCells}, c \in BuiltCells :
    LET cell == fn.data.cells[c]
    IN /\ Len(cell.faces) = 9
       /\ Cardinality({k \in 1..Len(cell.nodes) : cell.nodes[k].flags = 0}) >= 2
       /\ Cardinality({k \in 1..Len(cell.nodes) : cell.nodes[k].flags = LEAF_FLAG}) >= 3
       /\ cell.faces # parted[c].faces

\* the corners of input triangle t and of face f of a cell, as positions
TriCorners(t) ==
  <<fn.vertices[fn.faces[t].v0 + 1], fn.vertices[fn.faces[t].v1 + 1],
    fn.vertices[fn.faces[t].v2 + 1]>>

FaceCorners(cell, f) ==
  <<cell.vertices[cell.faces[f].v0 + 1], cell.vertices[cell.faces[f].v1 + 1],
    cell.vertices[cell.faces[f].v2 + 1]>>

\* the collision cells that hold input triangle t
HomeCells(t) ==
  {c \in 1..Len(fn.data.cells) :
     \E f \in 1..Len(fn.data.cells[c].faces) :
       FaceCorners(fn.data.cells[c], f) = TriCorners(t)}

\* the grid cell of the centroid of triangle t, each coordinate clamped to
\* [0, 65535]: floor((centroid - bbox.min) / cell_size)
CentroidCell(t) ==
  LET c == TriCorners(t)
      gx == FloorDiv((c[1][1] + c[2][1] + c[3][1]) - 3 * fn.data.bbox.min[1],
                     3 * fn.data.cell_size_x)
      gy == FloorDiv((c[1][2] + c[2][2] + c[3][2]) - 3 * fn.data.bbox.min[2],
                     3 * fn.data.cell_size_y)
  IN [x |-> Max2(0, Min2(gx, CellMax)), y |-> Max2(0, Min2(gy, CellMax))]

\* C14: partition_by_cell puts every input triangle in exactly one collision
\* cell, whose index has cell_x = floor((centroid.x - bbox.min.x) /
\* cell_size_x) in its low half and cell_y in its high half, both within
\* [0, 65535]; triangles whose centroids lie in different grid cells are in
\* different collision cells, and collision.lci carries the same coordinates.
C14_CentroidCell ==
  pc \in {"coll_cells", "bvh", "coll_written"} =>
    /\ \A t \in 1..Len(fn.faces) :
         /\ Cardinality(HomeCells(t)) = 1
         /\ \A c \in HomeCells(t) :
              /\ CellX(fn.data.cells[c].index) = CentroidCell(t).x
              /\ CellY(fn.data.cells[c].index) = CentroidCell(t).y
              /\ pc = "coll_written" =>
                   /\ fn.file.chunks[1 + c].index_x = CentroidCell(t).x
                   /\ fn.file.chunks[1 + c].index_y = CentroidCell(t).y
    /\ \A t1, t2 \in 1..Len(fn.faces) :
         CentroidCell(t1) # CentroidCell(t2) => HomeCells(t1) \cap HomeCells(t2) = {}

\* the file position at which chunk k of collision.lci starts
RECURSIVE ChunkStart(_, _)
ChunkStart(chunks, k) ==
  IF k <= 1 THEN 0 ELSE ChunkStart(chunks, k - 1) + chunks[k - 1].bytes

\* C15: in collision.lci header_len = 48 + 40 * mesh_num, which is where the
\* first payload starts; the first mesh header's offset is header_len, each
\* later offset is the previous offset plus the previous bytes_size,
\* bytes_size = 12 * vertex_num + 12 * face_num + bvh_size, every payload
\* starts at its header's offset and is bytes_size long, and the last payload
\* ends at the end of the file.
C15_LciLayout ==
  (pc = "coll_written" /\ fn.file.exists) =>
    \A ch \in {fn.file.chunks} :
      LET mesh_num == ch[1].mesh_num
          hdr(i) == ch[1 + i]
          payload(i) == ch[1 + mesh_num + i]
          file_size == ChunkStart(ch, Len(ch) + 1)
      IN /\ mesh_num = Len(fn.data.cells)
         /\ Len(ch) = 1 + 2 * mesh_num
         /\ ch[1].header_len = 48 + 40 * mesh_num
         /\ ChunkStart(ch, 2 + mesh_num) = ch[1].header_len
         /\ hdr(1).offset = ch[1].header_len
         /\ \A i \in 2..mesh_num : hdr(i).offset = hdr(i - 1).offset + hdr(i - 1).bytes_size
         /\ \A i \in 1..mesh_num :
              /\ hdr(i).bytes_size = 12 * hdr(i).vertex_num + 12 * hdr(i).face_num
                                     + hdr(i).bvh_size
              /\ hdr(i).vertex_num = Len(fn.data.cells[i].vertices)
              /\ hdr(i).face_num = Len(fn.data.cells[i].faces)
              /\ hdr(i).bvh_size = BvhHeaderBytes + BvhNodeBytes * Len(fn.data.cells[i].nodes)
              /\ ChunkStart(ch, 1 + mesh_num + i) = hdr(i).offset
              /\ payload(i).bytes = hdr(i).bytes_size
         /\ hdr(mesh_num).offset + hdr(mesh_num).bytes_size = file_size

\* a file of several cells, one of them with a BVH of several nodes, the
\* whole mesh within the first 65536 columns
C15_Witness ==
  /\ pc = "coll_written"
  /\ fn.file.exists
  /\ fn.file.chunks[1].mesh_num >= 2
  /\ \A i \in 1..Len(fn.vertices) : fn.vertices[i][1] < 65536
  /\ \E i \in 1..Len(fn.data.cells) : Len(fn.data.cells[i].nodes) >= 3

\* ------------------------------------------------------ ConvertApp::run
\* directory entries named <base>_<digits>.<ext>: three plain numbers, a
\* zero-padded 1, a backup copy, and a number beyond the range of int
LodEntries ==
  { [digits |-> <<1>>, ext |-> "ply"],
    [digits |-> <<2>>, ext |-> "ply"],
    [digits |-> <<3>>, ext |-> "ply"],
    [digits |-> <<0, 1>>, ext |-> "ply"],
    [digits |-> <<2>>, ext |-> "ply.bak"],
    [digits |-> <<9, 9, 9, 9, 9, 9, 9, 9, 9, 9, 9>>, ext |-> "ply"] }

\* the -i argument: a .ply file, a file of another type, a directory, a
\* directory whose name ends in .ply, or a path that does not exist
InputPaths ==
  { [kind |-> "file", self |-> "in/scene.ply", parent |-> "in", stem |-> "scene", ext |-> "ply"],
    [kind |-> "file", self |-> "in/scene.splat", parent |-> "in", stem |-> "scene", ext |-> "splat"],
    [kind |-> "dir", self |-> "in/scene", parent |-> "in", stem |-> "scene", ext |-> ""],
    [kind |-> "dir", self |-> "in/scene.ply", parent |-> "in", stem |-> "scene", ext |-> "ply"],
    [kind |-> "missing", self |-> "in/scene.ply", parent |-> "in", stem |-> "scene", ext |-> "ply"] }

EnvStates == {"missing", "unreadable", "empty", "splats"}

\* the directory and base name under which the numbered LOD files of an
\* input lie: next to a file, inside a directory as point_cloud_<k>.ply
LodHome(input) ==
  IF input.kind = "dir" THEN [dir |-> input.self, base |-> "point_cloud"]
  ELSE [dir |-> input.parent, base |-> input.stem]

\* fs::directory_iterator(dir), the entries that start with base and "_"
Listing(fs, dir, base) ==
  IF dir = LodHome(fs.input).dir /\ base = LodHome(fs.input).base THEN fs.entries ELSE {}

\* std::regex_match against base_name_ + "_(\\d+)\\.ply"
RegexMatch(e) == Len(e.digits) >= 1 /\ e.ext = "ply"

\* the digits without their leading zeros
RECURSIVE StripZeros(_)
StripZeros(d) == IF Len(d) > 1 /\ Head(d) = 0 THEN StripZeros(Tail(d)) ELSE d

RECURSIVE DigitsValue(_, _)
DigitsValue(d, acc) == IF d = <<>> THEN acc ELSE DigitsValue(Tail(d), 10 * acc + Head(d))

\* std::stoi: the value, or std::out_of_range beyond ten digits
StoiThrows(d) == Len(StripZeros(d)) > 10
Stoi(d) == DigitsValue(StripZeros(d), 0)

\* the characters of "<digits>.ply" as codes; the common prefix is left out
NameChars(e) == [i \in 1..(Len(e.digits) + 1) |->
                   IF i <= Len(e.digits) THEN 48 + e.digits[i] ELSE 46]

RECURSIVE LexLess(_, _)
LexLess(a, b) ==
  IF b = <<>> THEN FALSE
  ELSE IF a = <<>> THEN TRUE
  ELSE IF Head(a) # Head(b) THEN Head(a) < Head(b)
  ELSE LexLess(Tail(a), Tail(b))

\* operator< of std::pair<int, std::string>
NumberedLess(a, b) ==
  Stoi(a.digits) < Stoi(b.digits) \/
  (Stoi(a.digits) = Stoi(b.digits) /\ LexLess(NameChars(a), NameChars(b)))

\* std::sort(numbered_files)
RECURSIVE SortNumbered(_)
SortNumbered(S) ==
  IF S = {} THEN <<>>
  ELSE LET m == CHOOSE a \in S : \A b \in S : a = b \/ NumberedLess(a, b)
       IN <<m>> \o SortNumbered(S \ {m})

\* the loop that adds files until the first gap
RECURSIVE TakeRun(_, _)
TakeRun(numbered, expected) ==
  IF numbered = <<>> \/ Stoi(Head(numbered).digits) # expected THEN <<>>
  ELSE <<Head(numbered)>> \o TakeRun(Tail(numbered), expected + 1)

LodPath(dir, base, e) == [dir |-> dir, base |-> base, digits |-> e.digits, ext |-> e.ext]

\* the -i argument as a path: <parent>/<stem>.<ext>
InputFile(input) ==
  [dir |-> input.parent, base |-> input.stem, digits |-> <<>>, ext |-> input.ext]

\* the LOD part of findPlyFiles: lod_files_, or the exception of std::stoi
FindLods(fs, input_path_, input_dir_, base_name_, single_lod_) ==
  LET matched == {e \in Listing(fs, input_dir_, base_name_) : RegexMatch(e)}
      run == TakeRun(SortNumbered(matched), 1)
      all == <<InputFile(input_path_)>> \o
             [i \in 1..Len(run) |-> LodPath(input_dir_, base_name_, run[i])]
  IN IF \E e \in matched : StoiThrows(e.digits)
     THEN [thrown |-> TRUE, lod_files_ |-> <<InputFile(input_path_)>>]
     ELSE [thrown |-> FALSE,
           lod_files_ |-> IF single_lod_ /\ Len(all) > 1 THEN SubSeq(all, 1, 1) ELSE all]

\* the mutant writes the metadata before the splat data
RunOrder_meta_first ==
  <<"parseArgs", "findPlyFiles", "validateOutput", "buildSpatialGridParallel",
    "encodeAllLods", "writeMeta", "writeEnvironment", "writeIndex",
    "writeEncodedData", "writeAttrs">>

\* the calls of ConvertApp::run in program order
RunOrder ==
  <<"parseArgs", "findPlyFiles", "validateOutput", "buildSpatialGridParallel",
    "encodeAllLods", "writeEncodedData", "writeEnvironment", "writeIndex",
    "writeMeta", "writeAttrs">>

\* the mutant writes environment.bin whatever was found
EnvWritten_always(a) == TRUE

\* the guard of writeEnvironment
EnvWritten(a) == a.has_env_ /\ a.env_splats_ > 0

\* ConvertApp(const ConvertConfig&)
ConvertAppCtor(input, single_lod, include_env, fs) ==
  [input_path_ |-> input,
   input_dir_ |-> IF input.kind = "dir" THEN input.self ELSE input.parent,
   base_name_ |-> IF input.kind = "dir" THEN "point_cloud" ELSE input.stem,
   single_lod_ |-> single_lod, include_env_ |-> include_env, env_file_ |-> "",
   lod_files_ |-> <<>>, has_env_ |-> FALSE, env_splats_ |-> 0, has_sh_ |-> FALSE,
   at |-> 1, error |-> "", fs |-> fs]

\* unopened holds the writers whose false return value run() discarded
NoOutput ==
  [files |-> {}, log |-> {}, trace |-> <<>>, finished |-> <<>>, file_type |-> "",
   unopened |-> {}]

\* a writer that returns false when its file cannot be opened
WriterResult(o, file, opened) ==
  IF opened THEN [o EXCEPT !.files = o.files \cup {file}]
  ELSE [o EXCEPT !.unopened = o.unopened \cup {file}]

\* SpatialGrid::write_index_bin is called by writeIndex but its body is not
\* part of the sources; its callers test a bool result, as for the other writers
grid_write_index_bin(o, opened) == WriterResult(o, "index.bin", opened)

RunIdle ==
  /\ lod_files = <<>>
  /\ n_threads = 1
  /\ grid = NoGrid
  /\ lod = 0
  /\ chunk = <<>>
  /\ nextRow = <<>>
  /\ local_grids = <<>>
  /\ nextIter = 0
  /\ thread_cells = <<>>
  /\ result = None
  /\ fn = None

\* ConvertWorker::run up to the call of app.run()
InitRun ==
  /\ pc = "run"
  /\ RunIdle
  /\ out = NoOutput
  /\ \E input \in InputPaths, entries \in SUBSET LodEntries, single_lod \in BOOLEAN,
        include_env \in BOOLEAN, env \in EnvStates, lod0_sh \in BOOLEAN :
       app = ConvertAppCtor(input, single_lod, include_env,
                            [input |-> input, entries |-> entries, env |-> env,
                             lod0_sh |-> lod0_sh])

AtStage(name) == pc = "run" /\ RunOrder[app.at] = name

PcAfter == IF app.at = Len(RunOrder) THEN "run_returned" ELSE "run"

RunFrame == UNCHANGED <<gridVars, encVars, fn>>

\* a stage that returns: the next statement of run()
StageReturns(name, a, o) ==
  /\ app' = [a EXCEPT !.at = app.at + 1]
  /\ out' = [o EXCEPT !.trace = Append(out.trace, name)]
  /\ pc' = PcAfter
  /\ RunFrame

\* a stage that throws: run() is left with the exception
StageThrows(name, a, o, what) ==
  /\ app' = [a EXCEPT !.error = what]
  /\ out' = [o EXCEPT !.trace = Append(out.trace, name)]
  /\ pc' = "run_thrown"
  /\ RunFrame

parseArgs ==
  /\ AtStage("parseArgs")
  /\ LET p == app.input_path_
     IN IF p.kind = "missing"
        THEN StageThrows("parseArgs", app, out, "Input file not found")
        ELSE IF p.ext # "ply"
        THEN StageThrows("parseArgs", [app EXCEPT !.input_dir_ = p.parent], out,
                         "Input file must have .ply extension")
        ELSE StageReturns("parseArgs",
                          [app EXCEPT !.input_dir_ = p.parent, !.base_name_ = p.stem], out)

findPlyFiles ==
  /\ AtStage("findPlyFiles")
  /\ LET found == FindLods(app.fs, app.input_path_, app.input_dir_, app.base_name_,
                           app.single_lod_)
         a1 == [app EXCEPT !.lod_files_ = found.lod_files_]
     IN IF found.thrown
        THEN StageThrows("findPlyFiles", a1, out, "stoi")
        ELSE IF ~app.include_env_
        THEN StageReturns("findPlyFiles", a1, out)
        ELSE IF app.fs.env # "missing"
        THEN StageReturns("findPlyFiles",
                          [a1 EXCEPT !.env_file_ = "environment.ply", !.has_env_ = TRUE], out)
        ELSE StageReturns("findPlyFiles",
                          [a1 EXCEPT !.env_file_ = "", !.has_env_ = FALSE],
                          [out EXCEPT !.log = out.log \cup
                                              {"Warning: environment.ply not found"}])

\* fs::create_directories may throw
validateOutput ==
  /\ AtStage("validateOutput")
  /\ \E ok \in BOOLEAN :
       IF ok THEN StageReturns("validateOutput", app, out)
       ELSE StageThrows("validateOutput", app, out, "create_directories")

\* both passes over the LOD files, then the optional environment read
buildSpatialGridParallel ==
  /\ AtStage("buildSpatialGridParallel")
  /\ \E readable \in BOOLEAN :
       IF app.input_path_.kind = "dir" \/ ~readable
       THEN StageThrows("buildSpatialGridParallel", app, out, "Failed to read")
       ELSE LET a1 == [app EXCEPT !.has_sh_ = app.fs.lod0_sh]
            IN IF ~app.has_env_
               THEN StageReturns("buildSpatialGridParallel", a1, out)
               ELSE IF app.fs.env = "unreadable"
               THEN StageReturns("buildSpatialGridParallel", [a1 EXCEPT !.has_env_ = FALSE],
                                 [out EXCEPT !.log = out.log \cup
                                            {"Warning: Failed to read environment.ply"}])
               ELSE StageReturns("buildSpatialGridParallel",
                                 [a1 EXCEPT !.env_splats_ =
                                              IF app.fs.env = "splats" THEN 1 ELSE 0],
                                 out)

encodeAllLods ==
  /\ AtStage("encodeAllLods")
  /\ \E reopened \in BOOLEAN :
       IF reopened THEN StageReturns("encodeAllLods", app, out)
       ELSE StageThrows("encodeAllLods", app, out, "Failed to reopen")

\* data.bin is created before shcoef.bin; either open may fail
writeEncodedDataStage ==
  /\ AtStage("writeEncodedData")
  /\ \E opened \in {"both", "data only", "none"} :
       IF opened = "none"
       THEN StageThrows("writeEncodedData", app, out, "Failed to create data.bin")
       ELSE IF app.has_sh_ /\ opened = "data only"
       THEN StageThrows("writeEncodedData", app,
                        [out EXCEPT !.files = out.files \cup {"data.bin"}],
                        "Failed to create shcoef.bin")
       ELSE StageReturns("writeEncodedData", app,
                         [out EXCEPT !.files = out.files \cup
                                    (IF app.has_sh_ THEN {"data.bin", "shcoef.bin"}
                                     ELSE {"data.bin"})])

writeEnvironment ==
  /\ AtStage("writeEnvironment")
  /\ IF EnvWritten(app)
     THEN \E written \in BOOLEAN :
            IF written
            THEN StageReturns("writeEnvironment", app,
                              [out EXCEPT !.files = out.files \cup {"environment.bin"}])
            ELSE StageReturns("writeEnvironment", app,
                              [out EXCEPT !.log = out.log \cup
                                         {"Warning: Failed to write environment.bin"}])
     ELSE StageReturns("writeEnvironment", app, out)

\* the result of write_index_bin is not looked at
writeIndex ==
  /\ AtStage("writeIndex")
  /\ \E opened \in BOOLEAN : StageReturns("writeIndex", app, grid_write_index_bin(out, opened))

\* MetaWriter::write returns false when meta.lcc cannot be opened
writeMeta ==
  /\ AtStage("writeMeta")
  /\ \E opened \in BOOLEAN :
       StageReturns("writeMeta", app,
                    IF opened
                    THEN [WriterResult(out, "meta.lcc", TRUE) EXCEPT
                            !.file_type = IF app.has_sh_ THEN "Quality" ELSE "Portable"]
                    ELSE WriterResult(out, "meta.lcc", FALSE))

\* AttrsWriter::write returns false when attrs.lcp cannot be opened
writeAttrs ==
  /\ AtStage("writeAttrs")
  /\ \E opened \in BOOLEAN : StageReturns("writeAttrs", app, WriterResult(out, "attrs.lcp", opened))

\* ConvertWorker::run after app.run(): the finished signal of either branch
WorkerFinished ==
  /\ pc \in {"run_returned", "run_thrown"}
  /\ out' = [out EXCEPT !.finished =
               Append(out.finished,
                      IF pc = "run_returned" THEN [success |-> TRUE, error |-> ""]
                      ELSE [success |-> FALSE, error |-> app.error])]
  /\ pc' = "worker_done"
  /\ UNCHANGED <<gridVars, encVars, fn, app>>

RunNext ==
  \/ parseArgs
  \/ findPlyFiles
  \/ validateOutput
  \/ buildSpatialGridParallel
  \/ encodeAllLods
  \/ writeEncodedDataStage
  \/ writeEnvironment
  \/ writeIndex
  \/ writeMeta
  \/ writeAttrs
  \/ WorkerFinished

SpecRun == InitRun /\ [][RunNext]_vars

\* ------------------------------------------------------------ run claims
\* the stage has been called and has returned
Returned(name) ==
  \E i \in 1..Len(out.trace) :
    out.trace[i] = name /\ (i < Len(out.trace) \/ pc \in {"run", "run_returned"} \/
                            (pc = "worker_done" /\ out.finished[1].success))

\* the numbers k for which some <base>_<k>.ply lies next to the input
NumbersPresent ==
  {Stoi(e.digits) : e \in {x \in Listing(app.fs, LodHome(app.fs.input).dir,
                                         LodHome(app.fs.input).base) :
                             RegexMatch(x) /\ ~StoiThrows(x.digits)}}

\* the largest k with 1..k all present
LodRun == CHOOSE k \in 0..Cardinality(LodEntries) :
            /\ \A j \in 1..k : j \in NumbersPresent
            /\ (k + 1) \notin NumbersPresent

\* C16: for a .ply file as input findPlyFiles returns the base file followed
\* by the files numbered 1..k, in ascending order, where k is the largest
\* number such that files numbered 1 to k all exist next to the base file; a
\* file behind a gap is never included; with single_lod the list is the base
\* file alone.
C16_LodDiscovery ==
  (app.input_path_.kind = "file" /\ Returned("findPlyFiles")) =>
    /\ app.lod_files_[1] = InputFile(app.input_path_)
    /\ app.single_lod_ => Len(app.lod_files_) = 1
    /\ ~app.single_lod_ =>
         /\ Len(app.lod_files_) = 1 + LodRun
         /\ \A j \in 1..LodRun :
              /\ Stoi(app.lod_files_[j + 1].digits) = j
              /\ app.lod_files_[j + 1].dir = app.input_path_.parent
              /\ app.lod_files_[j + 1].base = app.input_path_.stem
              /\ app.lod_files_[j + 1].ext = "ply"

\* C17: for an input path that is an existing directory run() does not fail
\* on account of the path, LOD 0 is <dir>/point_cloud.ply and every numbered
\* LOD is <dir>/point_cloud_<k>.ply.
C17_DirectoryInput ==
  app.input_path_.kind = "dir" =>
    /\ pc = "run_thrown" =>
         app.error \notin {"Input file not found", "Input file must have .ply extension",
                           "Failed to read"}
    /\ Returned("findPlyFiles") =>
         /\ app.lod_files_[1] = [dir |-> app.input_path_.self, base |-> "point_cloud",
                                 digits |-> <<>>, ext |-> "ply"]
         /\ \A j \in 2..Len(app.lod_files_) :
              /\ app.lod_files_[j].dir = app.input_path_.self
              /\ app.lod_files_[j].base = "point_cloud"

\* the run was asked for an environment that is absent or is no splat PLY
EnvUnavailable == app.include_env_ /\ app.fs.env \in {"missing", "unreadable"}

\* C18: when the environment is requested but its file is missing or cannot
\* be read, no stage fails on that account; a run that returns has logged a
\* warning, has written data.bin and every one of index.bin, meta.lcc and
\* attrs.lcp whose file could be opened, but no environment.bin, and fileType
\* follows the main cloud alone.
C18_EnvMissing ==
  EnvUnavailable =>
    /\ "environment.bin" \notin out.files
    /\ pc = "run_thrown" =>
         app.error \in {"Input file not found", "Input file must have .ply extension",
                        "stoi", "create_directories", "Failed to read", "Failed to reopen",
                        "Failed to create data.bin", "Failed to create shcoef.bin"}
    /\ (pc = "run_thrown" /\ app.error = "Failed to read") =>
         Returned("findPlyFiles") /\ ~Returned("buildSpatialGridParallel")
    /\ Returned("buildSpatialGridParallel") =>
         /\ ~app.has_env_
         /\ \/ "Warning: environment.ply not found" \in out.log
            \/ "Warning: Failed to read environment.ply" \in out.log
    /\ pc = "run_returned" =>
         /\ {"data.bin", "index.bin", "meta.lcc", "attrs.lcp"} \subseteq
              out.files \cup out.unopened
         /\ "data.bin" \in out.files
         /\ out.files \cap out.unopened = {}
         /\ "meta.lcc" \in out.files =>
              out.file_type = IF app.fs.lod0_sh THEN "Quality" ELSE "Portable"

\* a finished run in Quality mode whose environment file was no splat PLY
C18_Witness ==
  /\ pc = "worker_done"
  /\ out.finished = <<[success |-> TRUE, error |-> ""]>>
  /\ app.include_env_
  /\ app.fs.env = "unreadable"
  /\ "Warning: Failed to read environment.ply" \in out.log
  /\ out.files = {"data.bin", "shcoef.bin", "index.bin", "meta.lcc", "attrs.lcp"}
  /\ out.file_type = "Quality"

\* the output files each stage of run() creates
StageFiles(name) ==
  IF name = "writeEncodedData" THEN {"data.bin", "shcoef.bin"}
  ELSE IF name = "writeEnvironment" THEN {"environment.bin"}
  ELSE IF name = "writeIndex" THEN {"index.bin"}
  ELSE IF name = "writeMeta" THEN {"meta.lcc"}
  ELSE IF name = "writeAttrs" THEN {"attrs.lcp"}
  ELSE {}

\* C19: the stages of run() are entered in the order parseArgs, findPlyFiles,
\* validateOutput, buildSpatialGridParallel, encodeAllLods, writeEncodedData,
\* writeEnvironment, writeIndex, writeMeta, writeAttrs; after a stage has
\* thrown no later stage is entered and no file of a later stage exists; the
\* worker emits exactly one finished signal, success = true after a return
\* and success = false with the exception message after a throw.
C19_StagesInOrder ==
  pc \in {"run", "run_returned", "run_thrown", "worker_done"} =>
    LET order == <<"parseArgs", "findPlyFiles", "validateOutput",
                   "buildSpatialGridParallel", "encodeAllLods", "writeEncodedData",
                   "writeEnvironment", "writeIndex", "writeMeta", "writeAttrs">>
    IN /\ Len(out.trace) <= Len(order)
       /\ \A i \in 1..Len(out.trace) : out.trace[i] = order[i]
       /\ out.files \subseteq UNION {StageFiles(out.trace[i]) : i \in 1..Len(out.trace)}
       /\ pc = "run_returned" => Len(out.trace) = Len(order)
       /\ pc \in {"run", "run_returned", "run_thrown"} => out.finished = <<>>
       /\ pc = "worker_done" =>
            /\ Len(out.finished) = 1
            /\ out.finished[1].success = (Len(out.trace) = Len(order) /\ app.error = "")
            /\ ~out.finished[1].success => out.finished[1].error = app.error /\ app.error # ""

\* a run that threw while creating shcoef.bin: data.bin exists, nothing of a
\* later stage does, and the worker reported the failure
C19_Witness ==
  /\ pc = "worker_done"
  /\ out.trace[Len(out.trace)] = "writeEncodedData"
  /\ out.files = {"data.bin"}
  /\ out.finished = <<[success |-> FALSE, error |-> "Failed to create shcoef.bin"]>>

\* ------------------------------------------------------ LccWriter::write
\* the collision mesh handed to the encoder: none, one read_mesh rejects, one
\* without faces, and meshes whose triangles fall into one and into two cells
MeshStates == {"none", "unreadable", "no faces", "one cell", "two cells"}

WriteCellSize == 4

\* CollisionData::cells after CollisionEncoder::encode; a default
\* CollisionData when no mesh was given or read_mesh returned false
EncodedCollisionCells(mesh) ==
  IF mesh \in {"none", "unreadable"} THEN <<>>
  ELSE LET m == StripMesh(IF mesh = "no faces" THEN 0 ELSE 1, 0, "asc", WriteCellSize,
                          mesh = "two cells")
       IN partition_by_cell(m.vertices, m.faces, WriteCellSize, WriteCellSize).cells

\* CollisionData::empty
CollisionEmpty(collision) == collision.cells = <<>>

\* the calls of LccWriter::write in program order
WriteOrder ==
  <<"write_data_bin", "write_index_bin", "write_meta_lcc", "write_attrs_lcp",
    "write_environment", "write_collision", "write_poses">>

\* an LccData as far as write() branches on it, and an empty output directory
InitWrite ==
  /\ pc = "lcc_write"
  /\ PipelineIdle
  /\ \E mesh \in MeshStates, has_sh \in BOOLEAN, env \in BOOLEAN, poses \in BOOLEAN :
       fn = [mesh |-> mesh,
             data |-> [collision |-> [cells |-> EncodedCollisionCells(mesh)],
                       has_sh |-> has_sh, environment_empty |-> ~env,
                       poses_path_empty |-> ~poses],
             at |-> 1, files |-> {}, attrs |-> {}, what |-> ""]

AtWrite(name) == pc = "lcc_write" /\ WriteOrder[fn.at] = name

WriteFrame == UNCHANGED <<gridVars, encVars, out, app>>

\* the call returns: the next statement of write()
WriteReturns(f) ==
  /\ fn' = [f EXCEPT !.at = fn.at + 1]
  /\ pc' = IF fn.at = Len(WriteOrder) THEN "lcc_written" ELSE "lcc_write"
  /\ WriteFrame

\* the call throws: write() is left with the exception
WriteThrows(f, what) ==
  /\ fn' = [f EXCEPT !.what = what]
  /\ pc' = "lcc_thrown"
  /\ WriteFrame

\* data.bin, then shcoef.bin when the data carries SH
LccWriteDataBin ==
  /\ AtWrite("write_data_bin")
  /\ \E opened \in {"both", "data only", "none"} :
       IF opened = "none" THEN WriteThrows(fn, "Failed to create data.bin")
       ELSE IF fn.data.has_sh /\ opened = "data only"
       THEN WriteThrows([fn EXCEPT !.files = fn.files \cup {"data.bin"}],
                        "Failed to create shcoef.bin")
       ELSE WriteReturns([fn EXCEPT !.files = fn.files \cup
                                   (IF fn.data.has_sh THEN {"data.bin", "shcoef.bin"}
                                    ELSE {"data.bin"})])

LccWriteIndexBin ==
  /\ AtWrite("write_index_bin")
  /\ \E opened \in BOOLEAN :
       IF opened THEN WriteReturns([fn EXCEPT !.files = fn.files \cup {"index.bin"}])
       ELSE WriteThrows(fn, "Failed to create index.bin")

LccWriteMetaLcc ==
  /\ AtWrite("write_meta_lcc")
  /\ \E opened \in BOOLEAN :
       IF opened THEN WriteReturns([fn EXCEPT !.files = fn.files \cup {"meta.lcc"}])
       ELSE WriteThrows(fn, "Failed to create meta.lcc")

\* the clauses write_attrs_lcp puts after spawnPoint and transform
AttrsClauses(data) ==
  {"spawnPoint", "transform"}
    \cup (IF ~CollisionEmpty(data.collision) THEN {"collider"} ELSE {})
    \cup (IF ~data.poses_path_empty THEN {"poses"} ELSE {})

LccWriteAttrsLcp ==
  /\ AtWrite("write_attrs_lcp")
  /\ \E opened \in BOOLEAN :
       IF opened
       THEN WriteReturns([fn EXCEPT !.files = fn.files \cup {"attrs.lcp"},
                                    !.attrs = AttrsClauses(fn.data)])
       ELSE WriteThrows(fn, "Failed to create attrs.lcp")

\* nothing for an empty environment; a failed open is passed over in silence
LccWriteEnvironment ==
  /\ AtWrite("write_environment")
  /\ IF fn.data.environment_empty THEN WriteReturns(fn)
     ELSE \E opened \in BOOLEAN :
            IF opened THEN WriteReturns([fn EXCEPT !.files = fn.files \cup {"environment.bin"}])
            ELSE WriteReturns(fn)

\* nothing for an empty collision result; a failed open throws
LccWriteCollision ==
  /\ AtWrite("write_collision")
  /\ IF CollisionEmpty(fn.data.collision) THEN WriteReturns(fn)
     ELSE \E opened \in BOOLEAN :
            IF opened THEN WriteReturns([fn EXCEPT !.files = fn.files \cup {"collision.lci"}])
            ELSE WriteThrows(fn, "Failed to create collision.lci")

\* nothing without a poses path; create_directories and copy_file may throw
LccWritePoses ==
  /\ AtWrite("write_poses")
  /\ IF fn.data.poses_path_empty THEN WriteReturns(fn)
     ELSE \E copied \in BOOLEAN :
            IF copied THEN WriteReturns([fn EXCEPT !.files = fn.files \cup {"assets/poses.json"}])
            ELSE WriteThrows(fn, "copy_file")

SpecWrite ==
  InitWrite /\ [][LccWriteDataBin \/ LccWriteIndexBin \/ LccWriteMetaLcc \/ LccWriteAttrsLcp
                  \/ LccWriteEnvironment \/ LccWriteCollision \/ LccWritePoses]_vars

\* C20: once write() has ended, by return or by exception, attrs.lcp carries
\* the collider clause if and only if collision.lci exists in the output
\* directory; a non-empty collision result of a returned write has both, an
\* empty one (a mesh without faces, or one the encoder could not read) has
\* neither.
C20_ColliderIffFile ==
  pc \in {"lcc_written", "lcc_thrown"} =>
    /\ ("collider" \in fn.attrs) <=> ("collision.lci" \in fn.files)
    /\ (pc = "lcc_written" /\ ~CollisionEmpty(fn.data.collision)) =>
         "collider" \in fn.attrs /\ "collision.lci" \in fn.files
    /\ CollisionEmpty(fn.data.collision) =>
         "collider" \notin fn.attrs /\ "collision.lci" \notin fn.files

\* ------------------------------------------------- SplatBuffer::initialize
\* the properties initialize insists on
RequiredProps ==
  {"x", "y", "z", "f_dc_0", "f_dc_1", "f_dc_2", "opacity",
   "scale_0", "scale_1", "scale_2", "rot_0", "rot_1", "rot_2", "rot_3"}

NormalProps == {"nx", "ny", "nz"}

\* the f_rest_<i> properties of a header, as sets of i: the counts of SH
\* degrees 0 to 4, a count of no degree, runs with a hole, a run that does not
\* start at 0, and more properties than the counting loop visits
FRestSets ==
  {0..(n - 1) : n \in {0, 9, 24, 45, 72, 10, 130}}
    \cup {(0..8) \cup (10..23), 1..9}

\* the upper bound of the counting loop
FRestLoopBound == 128

PLYFileTypes == {"ASCII", "Binary", "BinaryBigEndian"}

\* the mutant gives every count the fallback degree
compute_sh_degree_fallback(num_f_rest) == 3

compute_sh_degree(num_f_rest) ==
  IF num_f_rest = 0 THEN 0
  ELSE IF num_f_rest = 9 THEN 1
  ELSE IF num_f_rest = 24 THEN 2
  ELSE IF num_f_rest = 45 THEN 3
  ELSE IF num_f_rest = 72 THEN 4
  ELSE 3

\* PLYReader::find_properties: every name must be a property of the element
find_properties(props, names) == names \subseteq props

\* the loop over f_rest_0, f_rest_1, ...: stops at the first name not found
RECURSIVE CountFRest(_, _)
CountFRest(f_rest, i) ==
  IF i >= FRestLoopBound \/ i \notin f_rest THEN i ELSE CountFRest(f_rest, i + 1)

\* PLYReaderMmap::map_element: null unless the reader is valid, the file is
\* binary little-endian, the element is fixed-size and the mapping succeeds
map_element(h) ==
  h.reader_valid /\ h.has_vertex /\ h.file_type = "Binary" /\ h.fixedSize /\ h.mmap_ok

\* the fields of a buffer nobody initialised
FreshBuffer == [ret |-> FALSE, m_data |-> FALSE, m_error |-> "", num_f_rest |-> 0,
                sh_degree |-> 0, has_normal |-> FALSE]

\* SplatBuffer::initialize on a fresh buffer; m_data is TRUE for non-null
initialize(h) ==
  LET fail(msg) == [FreshBuffer EXCEPT !.m_error = msg]
      num_f_rest == CountFRest(h.f_rest, 0)
  IN IF ~h.reader_valid THEN fail("Failed to open PLY file")
     ELSE IF ~h.has_vertex THEN fail("No vertex element found")
     ELSE IF ~find_properties(h.props, {"x", "y", "z"})
     THEN fail("Missing position properties (x, y, z)")
     ELSE IF ~find_properties(h.props, {"f_dc_0", "f_dc_1", "f_dc_2"})
     THEN fail("Missing f_dc properties - not a Gaussian splatting file")
     ELSE IF "opacity" \notin h.props THEN fail("Missing opacity property")
     ELSE IF ~find_properties(h.props, {"scale_0", "scale_1", "scale_2"})
     THEN fail("Missing scale properties")
     ELSE IF ~find_properties(h.props, {"rot_0", "rot_1", "rot_2", "rot_3"})
     THEN fail("Missing rotation properties")
     ELSE IF ~map_element(h)
     THEN fail(IF h.file_type # "Binary"
               THEN "Failed to map element: only binary little-endian format supported"
               ELSE "Failed to map element: mapping failed")
     ELSE [ret |-> TRUE, m_data |-> TRUE, m_error |-> "", num_f_rest |-> num_f_rest,
           sh_degree |-> compute_sh_degree(num_f_rest),
           has_normal |-> find_properties(h.props, NormalProps)]

\* a PLY header as far as initialize looks at it: at most one required
\* property is absent, the normals are complete, partial or absent
InitInitialize ==
  /\ pc = "initialize"
  /\ PipelineIdle
  /\ \E reader_valid \in BOOLEAN, has_vertex \in BOOLEAN, file_type \in PLYFileTypes,
        fixedSize \in BOOLEAN, mmap_ok \in BOOLEAN,
        missing \in {{}} \cup {{p} : p \in RequiredProps},
        normals \in {NormalProps, {"nx"}, {}}, f_rest \in FRestSets :
       fn = [header |-> [reader_valid |-> reader_valid, has_vertex |-> has_vertex,
                         file_type |-> file_type, fixedSize |-> fixedSize,
                         mmap_ok |-> mmap_ok,
                         props |-> (RequiredProps \ missing) \cup normals,
                         f_rest |-> f_rest],
             buffer |-> FreshBuffer]

Initialize ==
  /\ pc = "initialize"
  /\ fn' = [fn EXCEPT !.buffer = initialize(fn.header)]
  /\ pc' = "initialized"
  /\ UNCHANGED <<gridVars, encVars, out, app>>

SpecInitialize == InitInitialize /\ [][Initialize]_vars

\* the length of the run f_rest_0, f_rest_1, ... up to the first missing index
RECURSIVE FRestRun(_, _)
FRestRun(f_rest, i) == IF i \notin f_rest THEN i ELSE FRestRun(f_rest, i + 1)

\* what the claim lets initialize reject a file for, and what may stop it besides
InitializeMustFail(h) ==
  \/ h.file_type # "Binary"
  \/ ~h.fixedSize
  \/ ~(RequiredProps \subseteq h.props)

\* C21 as stated: initialize fails with a non-empty error and valid() false
\* whenever the file is not binary little-endian, the vertex element is not
\* fixed-size or a required property is missing; missing normals are no
\* reason to fail; on success num_f_rest is the length of the run f_rest_0,
\* f_rest_1, ... up to the first missing index, and counts 0, 9, 24, 45, 72
\* give degree 0, 1, 2, 3, 4.
C21_InitializeAsStated ==
  pc = "initialized" =>
    LET h == fn.header
        b == fn.buffer
    IN /\ InitializeMustFail(h) => ~b.ret /\ ~b.m_data /\ b.m_error # ""
       /\ (~InitializeMustFail(h) /\ h.reader_valid /\ h.has_vertex /\ h.mmap_ok) => b.ret
       /\ b.ret =>
            /\ b.m_data
            /\ b.num_f_rest = FRestRun(h.f_rest, 0)
            /\ \A d \in 0..4 : b.num_f_rest = 3 * ((d + 1) * (d + 1) - 1) => b.sh_degree = d

\* C21: the same, with num_f_rest the length of that run counted no further
\* than 128 properties.
C21_Initialize ==
  pc = "initialized" =>
    LET h == fn.header
        b == fn.buffer
        run == FRestRun(h.f_rest, 0)
    IN /\ InitializeMustFail(h) => ~b.ret /\ ~b.m_data /\ b.m_error # ""
       /\ ~b.ret => ~b.m_data /\ b.m_error # ""
       /\ (~InitializeMustFail(h) /\ h.reader_valid /\ h.has_vertex /\ h.mmap_ok) => b.ret
       /\ b.ret =>
            /\ b.m_data
            /\ b.num_f_rest = (IF run < FRestLoopBound THEN run ELSE FRestLoopBound)
            /\ \A d \in 0..4 : b.num_f_rest = 3 * ((d + 1) * (d + 1) - 1) => b.sh_degree = d

\* a degree-4 file without normals that was accepted
C21_Witness ==
  /\ pc = "initialized"
  /\ fn.buffer.ret
  /\ fn.header.props = RequiredProps
  /\ fn.buffer.num_f_rest = 72
  /\ fn.buffer.sh_degree = 4

\* ------------------------------------------------ collision claims, cont.
\* the input triangles partition_by_cell sends to the cell with this index,
\* in input order
HomeFaces(index) ==
  SelectSeq([t \in 1..Len(fn.faces) |-> t],
            LAMBDA t : TriCellIdx(fn.vertices, fn.faces[t], fn.data.bbox,
                                  fn.data.cell_size_x, fn.data.cell_size_y) = index)

\* C22: in every cell of partition_by_cell each local index of each face is a
\* position of the cell's vertex array, the k-th face of the cell has the
\* corner coordinates of the k-th input triangle sent to that cell, and no
\* two entries of the vertex array have the same coordinates.
C22_LocalVertices ==
  pc \in {"coll_cells", "bvh", "coll_written"} =>
    \A c \in 1..Len(fn.data.cells) :
      \A cell \in {fn.data.cells[c]} :
        /\ \A f \in 1..Len(cell.faces) :
             {cell.faces[f].v0, cell.faces[f].v1, cell.faces[f].v2}
               \subseteq 0..(Len(cell.vertices) - 1)
        /\ \A i, j \in 1..Len(cell.vertices) : i # j => cell.vertices[i] # cell.vertices[j]
        /\ c \notin BuiltCells =>
             \A home \in {HomeFaces(cell.index)} :
               /\ Len(home) = Len(cell.faces)
               /\ \A k \in 1..Len(home) : FaceCorners(cell, k) = TriCorners(home[k])

\* a freshly partitioned cell of several faces that share vertices
C22_Witness ==
  /\ pc = "coll_cells"
  /\ fn.cur = 1
  /\ \E c \in 1..Len(fn.data.cells) :
       /\ Len(fn.data.cells[c].faces) >= 3
       /\ Len(fn.data.cells[c].vertices) < 3 * Len(fn.data.cells[c].faces)
       /\ Len(fn.data.cells[c].vertices) >= 4

\* -------------------------------------- pass 2 of from_files: the ranges
\* sigmoid of a logit, in thousandths; rising with the logit
sigmoid(x) ==
  CASE x = -1 -> 269
    [] x = 0 -> 500
    [] x = 1 -> 731

RowSeeds == 0..2

\* a splat row of a file with nfr f_rest properties: log scales, logit
\* opacity and the f_rest block [R.., G.., B..], all fixed by the seed
RangeRow(s, nfr) ==
  [scale |-> <<s - 1, 0, 1 - s>>, opacity |-> s - 1,
   f_rest |-> ShRow(<<s, -s, 2 * s - 1>>, 1, nfr)]

\* the f_rest counts a LOD file may come with, each one independently
RangeCounts == {0, 9, 24}

RangeFiles ==
  {[num_f_rest |-> nfr, rows |-> [i \in 1..n |-> RangeRow(sd[i], nfr)]] :
     nfr \in RangeCounts, n \in 0..MaxRows, sd \in [1..MaxRows -> RowSeeds]}

RangeLodCounts == {1, 2}

\* what a read outside the f_rest block may find: other properties of the
\* row, the next row, or bytes past the mapping
GarbageValues == {-7, 7}

\* AttributeRanges()
DefaultRanges ==
  [scale_min |-> <<FltMax, FltMax, FltMax>>, scale_max |-> <<-FltMax, -FltMax, -FltMax>>,
   sh_min |-> <<FltMax, FltMax, FltMax>>, sh_max |-> <<-FltMax, -FltMax, -FltMax>>,
   opacity_min |-> FltMax, opacity_max |-> -FltMax]

\* AttributeRanges::expand_scale
expand_scale(rg, linear_scale) ==
  [rg EXCEPT !.scale_min = [i \in 1..3 |-> IF linear_scale[i] < rg.scale_min[i]
                                            THEN linear_scale[i] ELSE rg.scale_min[i]],
             !.scale_max = [i \in 1..3 |-> IF linear_scale[i] > rg.scale_max[i]
                                            THEN linear_scale[i] ELSE rg.scale_max[i]]]

\* AttributeRanges::expand_opacity
expand_opacity(rg, sigmoid_opacity) ==
  [rg EXCEPT !.opacity_min = IF sigmoid_opacity < @ THEN sigmoid_opacity ELSE @,
             !.opacity_max = IF sigmoid_opacity > @ THEN sigmoid_opacity ELSE @]

\* the mutant keeps the target's maxima
merge_ranges_min_only(a, other) ==
  [a EXCEPT !.scale_min = [i \in 1..3 |-> Min2(a.scale_min[i], other.scale_min[i])],
            !.sh_min = [i \in 1..3 |-> Min2(a.sh_min[i], other.sh_min[i])],
            !.opacity_min = Min2(a.opacity_min, other.opacity_min)]

\* AttributeRanges::merge
merge_ranges(a, other) ==
  [scale_min |-> [i \in 1..3 |-> Min2(a.scale_min[i], other.scale_min[i])],
   scale_max |-> [i \in 1..3 |-> Max2(a.scale_max[i], other.scale_max[i])],
   sh_min |-> [i \in 1..3 |-> Min2(a.sh_min[i], other.sh_min[i])],
   sh_max |-> [i \in 1..3 |-> Max2(a.sh_max[i], other.sh_max[i])],
   opacity_min |-> Min2(a.opacity_min, other.opacity_min),
   opacity_max |-> Max2(a.opacity_max, other.opacity_max)]

\* SplatView::f_rest(k) on a row of a file with num_f_rest properties: the
\* k-th float after the start of the block, whatever lies there
f_rest_read(file, row, k, garbage) ==
  IF k < file.num_f_rest THEN row.f_rest[k + 1] ELSE garbage

\* the band loop of pass 2 on one row
RECURSIVE ExpandRowBands(_, _, _, _, _, _)
ExpandRowBands(rg, file, row, band, bands_per_channel, garbage) ==
  IF band >= bands_per_channel THEN rg
  ELSE LET e == expand_sh(rg, f_rest_read(file, row, band, garbage),
                          f_rest_read(file, row, band + bands_per_channel, garbage),
                          f_rest_read(file, row, band + 2 * bands_per_channel, garbage))
       IN ExpandRowBands([rg EXCEPT !.sh_min = e.sh_min, !.sh_max = e.sh_max],
                         file, row, band + 1, bands_per_channel, garbage)

\* the f_rest indices the band loop reads
BandReads(bands_per_channel) ==
  IF bands_per_channel > 0 THEN 0..(3 * bands_per_channel - 1) ELSE {}

InitRanges ==
  /\ pc = "rg_pass1"
  /\ \E n \in RangeLodCounts : lod_files \in [1..n -> RangeFiles]
  /\ n_threads \in 1..MaxThreads
  /\ grid = [ranges |-> DefaultRanges, has_sh |-> FALSE, num_f_rest |-> 0,
             bands_per_channel |-> 0]
  /\ lod = 0
  /\ chunk = <<>>
  /\ nextRow = <<>>
  /\ local_grids = <<>>
  /\ nextIter = 0
  /\ thread_cells = <<>>
  /\ result = None
  /\ out = None
  /\ app = None
  /\ fn = None

RangeFrame == UNCHANGED <<lod_files, n_threads, encVars, out, app, fn>>

\* pass 1: the SH metadata of LOD 0, then bands_per_channel
RangePass1 ==
  /\ pc = "rg_pass1"
  /\ LET has_sh == lod_files[1].num_f_rest > 0
         num_f_rest == lod_files[1].num_f_rest
     IN grid' = [grid EXCEPT !.has_sh = has_sh, !.num_f_rest = num_f_rest,
                             !.bands_per_channel =
                               IF has_sh /\ num_f_rest > 0 THEN num_f_rest \div 3 ELSE 0]
  /\ pc' = "rg_fork"
  /\ UNCHANGED <<lod, chunk, nextRow, local_grids>>
  /\ RangeFrame

\* local_grids(n_threads) and the static schedule of one LOD
RangeFork ==
  /\ pc = "rg_fork"
  /\ \E b \in StaticSchedules(n_threads, Len(lod_files[lod + 1].rows)) :
       /\ chunk' = [t \in Threads |-> [lo |-> b[t-1], hi |-> b[t]]]
       /\ nextRow' = [t \in Threads |-> b[t-1]]
  /\ local_grids' = [t \in Threads |-> [ranges |-> DefaultRanges, reads |-> {}]]
  /\ pc' = "rg_par"
  /\ UNCHANGED <<grid, lod>>
  /\ RangeFrame

\* one iteration of the omp-for body, as far as the ranges go
RangeExpandRow(t) ==
  /\ pc = "rg_par"
  /\ nextRow[t] < chunk[t].hi
  /\ \E garbage \in GarbageValues :
       LET file == lod_files[lod + 1]
           row == file.rows[nextRow[t] + 1]
           r1 == expand_scale(local_grids[t].ranges,
                              [i \in 1..3 |-> ExpQ(row.scale[i])])
           r2 == expand_opacity(r1, sigmoid(row.opacity))
           r3 == ExpandRowBands(r2, file, row, 0, grid.bands_per_channel, garbage)
       IN local_grids' = [local_grids EXCEPT
                            ![t] = [ranges |-> r3,
                                    reads |-> @.reads \cup BandReads(grid.bands_per_channel)]]
  /\ nextRow' = [nextRow EXCEPT ![t] = @ + 1]
  /\ UNCHANGED <<pc, grid, lod, chunk>>
  /\ RangeFrame

RECURSIVE MergeThreadRanges(_, _)
MergeThreadRanges(rg, t) ==
  IF t > n_threads THEN rg
  ELSE MergeThreadRanges(merge_ranges(rg, local_grids[t].ranges), t + 1)

\* the end of the parallel region and the sequential merge of one LOD
RangeMergeLod ==
  /\ pc = "rg_par"
  /\ \A t \in Threads : nextRow[t] = chunk[t].hi
  /\ grid' = [grid EXCEPT !.ranges = MergeThreadRanges(grid.ranges, 1)]
  /\ lod' = lod + 1
  /\ pc' = IF lod + 1 < NumLods THEN "rg_fork" ELSE "rg_done"
  /\ UNCHANGED <<chunk, nextRow, local_grids>>
  /\ RangeFrame

SpecRanges ==
  InitRanges /\ [][RangePass1 \/ RangeFork \/ (\E t \in Threads : RangeExpandRow(t))
                   \/ RangeMergeLod]_vars

\* ----------------------------------------------------------- range claims
SetMin(S, default) == IF S = {} THEN default ELSE CHOOSE x \in S : \A y \in S : x <= y
SetMax(S, default) == IF S = {} THEN default ELSE CHOOSE x \in S : \A y \in S : x >= y

\* every splat of every LOD file
AllSplats == UNION {{lod_files[l].rows[i] : i \in 1..Len(lod_files[l].rows)} : l \in 1..NumLods}

\* the f_rest values of colour channel c (1 to 3) over all splats, each row's
\* block split into three channels of equal length
ChannelValues(c) ==
  UNION {{row.f_rest[(c - 1) * (Len(row.f_rest) \div 3) + b] :
            b \in 1..(Len(row.f_rest) \div 3)} : row \in AllSplats}

\* component-wise minimum and maximum of exp(scale), sigmoid(opacity) and the
\* f_rest of each channel over all splats
ExpectedRanges ==
  [scale_min |-> [i \in 1..3 |-> SetMin({ExpQ(r.scale[i]) : r \in AllSplats}, FltMax)],
   scale_max |-> [i \in 1..3 |-> SetMax({ExpQ(r.scale[i]) : r \in AllSplats}, -FltMax)],
   sh_min |-> [c \in 1..3 |-> SetMin(ChannelValues(c), FltMax)],
   sh_max |-> [c \in 1..3 |-> SetMax(ChannelValues(c), -FltMax)],
   opacity_min |-> SetMin({sigmoid(r.opacity) : r \in AllSplats}, FltMax),
   opacity_max |-> SetMax({sigmoid(r.opacity) : r \in AllSplats}, -FltMax)]

\* the ranges objects of the current state
RangesInPlay ==
  {grid.ranges, DefaultRanges}
    \cup (IF pc = "rg_par" THEN {local_grids[t].ranges : t \in Threads} ELSE {})

\* C23: after pass 2 the global ranges are the component-wise minimum and
\* maximum of exp(scale), sigmoid(opacity) and per-channel f_rest over all
\* splats of all LODs, for every thread count and schedule; merge is
\* commutative and associative, and merging a default object changes nothing.
C23_GlobalRanges ==
  /\ pc = "rg_done" => grid.ranges = ExpectedRanges
  /\ pc \in {"rg_par", "rg_done"} =>
       \A a, b, c \in RangesInPlay :
         /\ merge_ranges(a, b) = merge_ranges(b, a)
         /\ merge_ranges(merge_ranges(a, b), c) = merge_ranges(a, merge_ranges(b, c))
         /\ merge_ranges(a, DefaultRanges) = a

\* C26: every f_rest(k) pass 2 reads on a row of LOD file L has
\* k < num_f_rest of file L, whatever the f_rest counts of the LOD files are;
\* bands_per_channel comes from LOD 0 alone.
C26_FRestInBlock ==
  /\ pc \in {"rg_fork", "rg_par", "rg_done"} =>
       grid.bands_per_channel = lod_files[1].num_f_rest \div 3
  /\ pc = "rg_par" =>
       \A t \in Threads : \A k \in local_grids[t].reads : k < lod_files[lod + 1].num_f_rest

\* ------------------------------------ the progress counter of the encoders
\* GridEncoder::encode and ConvertApp::encodeAllLods run the same loop nest;
\* they differ in how `processed` is guarded
Encoders == {"GridEncoder::encode", "ConvertApp::encodeAllLods"}

MaxCells == 2

\* total_work / 100 in the source
ReportDivisor == 100

\* where thread t stands in the body of the parallel loop
ProgThread(at, i, seen) == [at |-> at, i |-> i, seen |-> seen]

\* cells_vec, which (cell, lod) pairs hold splats, and the encoder that runs
InitProgress ==
  /\ pc = "prog"
  /\ lod_files = <<>>
  /\ grid = NoGrid
  /\ chunk = <<>>
  /\ nextRow = <<>>
  /\ local_grids = <<>>
  /\ result = None
  /\ out = None
  /\ app = None
  /\ lod = 0
  /\ nextIter = 0
  /\ n_threads \in 1..MaxThreads
  /\ thread_cells = [t \in Threads |-> ProgThread("fetch", 0, 0)]
  /\ \E encoder \in Encoders, cells \in 1..MaxCells, num_lods \in 1..MaxLods :
       \E nonempty \in [(0..(cells - 1)) \X (0..(num_lods - 1)) -> BOOLEAN] :
         fn = [encoder |-> encoder, cells_count |-> cells, num_lods |-> num_lods,
               nonempty |-> nonempty, total_work |-> cells * num_lods,
               report_interval |-> Max2(1, (cells * num_lods) \div ReportDivisor),
               processed |-> 0, lock |-> 0, reported |-> <<>>, writers |-> {}]

ProgFrame == UNCHANGED <<pc, lod_files, n_threads, grid, lod, chunk, nextRow, local_grids,
                         result, out, app>>

\* a write of thread t to a shared object
Written(var, a, b, t) == [var |-> var, a |-> a, b |-> b, tid |-> t]

\* schedule(dynamic): the thread takes the next iteration, skips an empty
\* cell, and otherwise encodes the cell; GridEncoder pushes the result on its
\* own list at once, ConvertApp keeps it for the critical section
ProgFetch(t) ==
  /\ pc = "prog"
  /\ thread_cells[t].at = "fetch"
  /\ IF nextIter >= fn.cells_count
     THEN /\ thread_cells' = [thread_cells EXCEPT ![t].at = "barrier"]
          /\ UNCHANGED <<nextIter, fn>>
     ELSE /\ nextIter' = nextIter + 1
          /\ IF ~fn.nonempty[<<nextIter, lod>>]
             THEN UNCHANGED <<thread_cells, fn>>
             ELSE IF fn.encoder = "GridEncoder::encode"
             THEN /\ thread_cells' = [thread_cells EXCEPT ![t].at = "increment",
                                                          ![t].i = nextIter]
                  /\ fn' = [fn EXCEPT !.writers = @ \cup {Written("thread_cells", t, 0, t)}]
             ELSE /\ thread_cells' = [thread_cells EXCEPT ![t].at = "acquire",
                                                          ![t].i = nextIter]
                  /\ UNCHANGED fn
  /\ ProgFrame

\* #pragma omp critical: entered by one thread at a time; the encoded cell is
\* stored first
ProgAcquire(t) ==
  /\ pc = "prog"
  /\ thread_cells[t].at = "acquire"
  /\ fn.lock = 0
  /\ fn' = [fn EXCEPT !.lock = t,
                      !.writers = @ \cup {Written("encoded_cells_", thread_cells[t].i, lod, t)}]
  /\ thread_cells' = [thread_cells EXCEPT ![t].at = "increment"]
  /\ UNCHANGED nextIter
  /\ ProgFrame

\* processed++: under #pragma omp atomic in GridEncoder, inside the critical
\* section in ConvertApp; only thread 0 of GridEncoder goes on to report
ProgIncrement(t) ==
  /\ pc = "prog"
  /\ thread_cells[t].at = "increment"
  /\ fn' = [fn EXCEPT !.processed = @ + 1,
                      !.writers = @ \cup {Written("processed", 0, 0, t)}]
  /\ thread_cells' = [thread_cells EXCEPT
                        ![t].at = IF fn.encoder = "GridEncoder::encode" /\ t # 1
                                  THEN "fetch" ELSE "test"]
  /\ UNCHANGED nextIter
  /\ ProgFrame

\* the value a read of `processed` returns: inside the critical section the
\* counter itself; outside, any value between the last one this thread saw
\* and the counter
ProgReadValues(t) ==
  IF fn.encoder = "GridEncoder::encode" THEN thread_cells[t].seen..fn.processed
  ELSE {fn.processed}

\* if (processed % report_interval == 0)
ProgTest(t) ==
  /\ pc = "prog"
  /\ thread_cells[t].at = "test"
  /\ \E v \in ProgReadValues(t) :
       IF v % fn.report_interval = 0
       THEN /\ thread_cells' = [thread_cells EXCEPT ![t].at = "report", ![t].seen = v]
            /\ UNCHANGED fn
       ELSE /\ thread_cells' = [thread_cells EXCEPT ![t].at = "fetch", ![t].seen = v]
            /\ fn' = [fn EXCEPT !.lock = 0]
  /\ UNCHANGED nextIter
  /\ ProgFrame

\* percent from a second read of processed, the callback, and the end of the
\* critical section where there is one
ProgReport(t) ==
  /\ pc = "prog"
  /\ thread_cells[t].at = "report"
  /\ \E v \in ProgReadValues(t) :
       /\ fn' = [fn EXCEPT !.reported = Append(@, 15 + (v * 75) \div fn.total_work),
                           !.lock = 0]
       /\ thread_cells' = [thread_cells EXCEPT ![t].at = "fetch", ![t].seen = v]
  /\ UNCHANGED nextIter
  /\ ProgFrame

\* the barrier at the end of the parallel loop, then the next LOD
ProgNextLod ==
  /\ pc = "prog"
  /\ \A t \in Threads : thread_cells[t].at = "barrier"
  /\ lod' = lod + 1
  /\ nextIter' = 0
  /\ thread_cells' = [t \in Threads |-> [thread_cells[t] EXCEPT !.at = "fetch"]]
  /\ pc' = IF lod + 1 < fn.num_lods THEN "prog" ELSE "prog_done"
  /\ UNCHANGED <<lod_files, n_threads, grid, chunk, nextRow, local_grids, result, out, app,
                 fn>>

SpecProgress ==
  InitProgress /\ [][ProgNextLod \/ (\E t \in Threads : ProgFetch(t))
                   \/ (\E t \in Threads : ProgAcquire(t))
                   \/ (\E t \in Threads : ProgIncrement(t))
                   \/ (\E t \in Threads : ProgTest(t))
                   \/ (\E t \in Threads : ProgReport(t))]_vars

\* thread r is about to read processed outside any critical section while
\* thread w is about to increment it
UnorderedReadWrite(r, w) ==
  /\ r # w
  /\ thread_cells[r].at \in {"test", "report"}
  /\ thread_cells[w].at = "increment"
  /\ fn.lock # r

\* C24: processed is the only object more than one worker writes; no worker
\* reads it while another worker may be writing it without both being
\* ordered by the same lock; the reported percentages never decrease and
\* lie within [15, 90].
C24_ProgressCounter ==
  pc \in {"prog", "prog_done"} =>
    /\ \A x, y \in fn.writers :
         (x.var = y.var /\ x.a = y.a /\ x.b = y.b /\ x.tid # y.tid) => x.var = "processed"
    /\ \A r, w \in Threads : ~UnorderedReadWrite(r, w)
    /\ \A k \in 1..Len(fn.reported) :
         /\ fn.reported[k] \in 15..90
         /\ k > 1 => fn.reported[k - 1] <= fn.reported[k]

\* ------------------------------------------------------ grid claims, cont.
StrictlyAscending(sq) == \A j \in 1..(Len(sq) - 1) : sq[j] < sq[j + 1]

\* C25: after from_files every cell's splat_indices[lod] is strictly
\* ascending in row index, for every thread count: the static schedule gives
\* thread t a contiguous block of rows below the block of thread t+1, each
\* thread-local list is ascending, and the merge appends in thread order; the
\* rows of every encoded cell are in that same order.
C25_AscendingRows ==
  /\ pc = "par" =>
       /\ \A t \in Threads : t + 1 \in Threads => chunk[t].hi <= chunk[t + 1].lo
       /\ \A t \in Threads : \A c \in 1..Len(local_grids[t].cell_indices) :
            /\ StrictlyAscending(local_grids[t].cell_indices[c].v)
            /\ \A j \in 1..Len(local_grids[t].cell_indices[c].v) :
                 local_grids[t].cell_indices[c].v[j] \in chunk[t].lo..(chunk[t].hi - 1)
  /\ pc \notin {"pass1"} =>
       \A c \in 1..Len(grid.cells) : \A l \in 1..NumLods :
         StrictlyAscending(grid.cells[c].v.splat_indices[l])
  /\ Encoded =>
       \A k \in 1..Len(result.cells) :
         /\ StrictlyAscending(result.cells[k].rows)
         /\ result.cells[k].rows =
              MapGet(grid.cells, result.cells[k].cell_id).splat_indices[result.cells[k].lod + 1]

\* two threads each put one row of the only LOD into the same cell
C25_Witness ==
  /\ Encoded
  /\ NumLods = 1
  /\ n_threads = 2
  /\ chunk[1] = [lo |-> 0, hi |-> 1]
  /\ chunk[2] = [lo |-> 1, hi |-> 2]
  /\ \E k \in 1..Len(result.cells) : result.cells[k].rows = <<0, 1>>

\* ------------------------------------------ build_index on any cell ids
\* cell ids from both ends of the 32-bit range; PackId takes (cell_y, cell_x)
IndexIds == {PackId(0, 0), PackId(1, 0), UINT32_MAX}

\* an encoded cell of a LOD may be missing, present without splats, or hold one
EntryKinds == {"absent", "empty", "splats"}

RECURSIVE SetToSeq(_)
SetToSeq(S) ==
  IF S = {} THEN <<>>
  ELSE LET x == CHOOSE x \in S : TRUE IN <<x>> \o SetToSeq(S \ {x})

\* the LccData with these entries, its cells ordered by sort_cells
IndexData(num_lods, has_sh, kind) ==
  LET present == {e \in IndexIds \X (0..(num_lods - 1)) : kind[e] # "absent"}
      cell(e) == LET n == IF kind[e] = "splats" THEN 1 ELSE 0
                 IN [cell_id |-> e[1], lod |-> e[2], count |-> n,
                     data |-> DataRecordBytes * n,
                     shcoef |-> IF has_sh THEN ShRecordBytes * n ELSE 0, rows |-> <<>>]
  IN [num_lods |-> num_lods, has_sh |-> has_sh,
      cells |-> sort_cells(SetToSeq({cell(e) : e \in present}))]

InitIndex ==
  /\ pc = "index"
  /\ PipelineIdle
  /\ \E num_lods \in 1..MaxLods, has_sh \in BOOLEAN :
       \E kind \in [IndexIds \X (0..(num_lods - 1)) -> EntryKinds] :
         fn = [kind |-> kind, data |-> IndexData(num_lods, has_sh, kind), index |-> None]

\* LccData::build_index with both offsets starting at 0
BuildIndex ==
  /\ pc = "index"
  /\ fn' = [fn EXCEPT !.index = build_index(fn.data)]
  /\ pc' = "indexed"
  /\ UNCHANGED <<gridVars, encVars, out, app>>

SpecIndex == InitIndex /\ [][BuildIndex]_vars

\* the cell ids with splats in some LOD
IdsWithSplats ==
  {id \in IndexIds : \E l \in 0..(fn.data.num_lods - 1) : fn.kind[<<id, l>>] = "splats"}

\* C27: on cells ordered by sort_cells with lod < num_lods and any 32-bit
\* cell ids, build_index never dereferences a null current_unit, emits one
\* unit per cell id that has a non-empty entry, and gives each unit num_lods
\* entries, all-zero for the LODs in which the cell has no splats.
C27_BuildIndexUnits ==
  pc = "indexed" =>
    /\ ~fn.index.null_deref
    /\ Len(fn.index.units) = Cardinality(IdsWithSplats)
    /\ \A id \in IdsWithSplats :
         Cardinality({u \in 1..Len(fn.index.units) : fn.index.units[u].index = id}) = 1
    /\ \A u \in 1..Len(fn.index.units) :
         /\ fn.index.units[u].index \in IdsWithSplats
         /\ Len(fn.index.units[u].lods) = fn.data.num_lods
         /\ \A l \in 0..(fn.data.num_lods - 1) :
              IF fn.kind[<<fn.index.units[u].index, l>>] = "splats"
              THEN fn.index.units[u].lods[l + 1].splat_count = 1
              ELSE fn.index.units[u].lods[l + 1] = ZeroNode

\* ------------------------------------------------- the node array of a BVH
\* the number of nodes of the subtree stored from index k on (0-based), when
\* the array lists a node, then its left subtree, then its right subtree; 0
\* where the array ends before the subtree does
RECURSIVE SubtreeSize(_, _, _)
SubtreeSize(nodes, k, fuel) ==
  IF k >= Len(nodes) \/ fuel = 0 THEN 0
  ELSE IF nodes[k + 1].flags = LEAF_FLAG THEN 1
  ELSE LET left == SubtreeSize(nodes, k + 1, fuel - 1)
           right == SubtreeSize(nodes, k + 1 + left, fuel - 1)
       IN IF left = 0 \/ right = 0 THEN 0 ELSE 1 + left + right

\* the internal nodes (0-based indices) that have node j as a child
ParentsOf(nodes, j) ==
  {k \in 0..(Len(nodes) - 1) :
     nodes[k + 1].flags # LEAF_FLAG /\ (k + 1 = j \/ nodes[k + 1].data0 = j)}

\* C28: after build_bvh on a non-empty cell the node array is in pre-order
\* with the root at index 0: an internal node at index k has its left child at
\* k + 1 and data0 equal to the index of its right child, k + 1 < data0 < node
\* count; no internal node keeps the placeholder 0, and every node but the
\* root is the child of exactly one internal node.
C28_PreOrder ==
  \A c \in BuiltCells :
    LET nodes == fn.data.cells[c].nodes
        count == Len(nodes)
    IN fn.data.cells[c].faces # <<>> =>
         /\ count >= 1
         /\ SubtreeSize(nodes, 0, count) = count
         /\ \A k \in 0..(count - 1) :
              nodes[k + 1].flags # LEAF_FLAG =>
                /\ nodes[k + 1].data0 # 0
                /\ k + 1 < nodes[k + 1].data0
                /\ nodes[k + 1].data0 < count
                /\ nodes[k + 1].data0 = k + 1 + SubtreeSize(nodes, k + 1, count)
         /\ ParentsOf(nodes, 0) = {}
         /\ \A j \in 1..(count - 1) : Cardinality(ParentsOf(nodes, j)) = 1

\* a finished cell of nine faces: the root's right child at index 2 is itself
\* an internal node, whose right child is the last node
C28_Witness ==
  \E c \in BuiltCells :
    LET nodes == fn.data.cells[c].nodes
    IN /\ Len(fn.data.cells[c].faces) = 9
       /\ Len(nodes) = 5
       /\ nodes[1].flags = 0 /\ nodes[1].data0 = 2
       /\ nodes[3].flags = 0 /\ nodes[3].data0 = 4

\* ------------------------------------------------ build_bvh on any face list
\* a cell handed to build_bvh directly: a strip of 0 to MaxFaces faces
InitBvh ==
  /\ pc = "coll_cells"
  /\ PipelineIdle
  /\ \E n \in 0..MaxFaces, a \in 0..2, order \in StripOrders :
       LET mesh == StripMesh(n, a, order, 1000, FALSE)
       IN fn = [vertices |-> mesh.vertices, faces |-> mesh.faces,
                data |-> [bbox |-> EmptyBBox, cell_size_x |-> 1000, cell_size_y |-> 1000,
                          cells |-> <<[index |-> PackId(0, 0), vertices |-> mesh.vertices,
                                       faces |-> mesh.faces, bvh_data |-> 0,
                                       nodes |-> <<>>]>>],
                cur |-> 1, indices |-> <<>>, stack |-> <<>>, nodes |-> <<>>,
                face_order |-> <<>>, file |-> <<>>]

\* the while loop runs on as long as the stack is not empty
SpecBvh ==
  InitBvh /\ [][BvhBegin \/ BvhStep \/ BvhFinish]_vars /\ WF_vars(BvhStep)

\* what one turn of the loop does with the entry on top of the stack
BvhTurn ==
  (pc = "bvh" /\ pc' = "bvh") =>
    LET entry == fn.stack[Len(fn.stack)]
        stack0 == SubSeq(fn.stack, 1, Len(fn.stack) - 1)
        n == entry.count
    IN IF n > MAX_LEAF_SIZE
       THEN /\ Len(fn.stack') = Len(stack0) + 2
            /\ SubSeq(fn.stack', 1, Len(stack0)) = stack0
            /\ LET right == fn.stack'[Len(stack0) + 1]
                   left == fn.stack'[Len(stack0) + 2]
               IN /\ left.start = entry.start /\ left.count = n \div 2
                  /\ right.start = entry.start + (n \div 2)
                  /\ right.count = n - (n \div 2)
                  /\ left.count >= 1 /\ left.count < n
                  /\ right.count >= 1 /\ right.count < n
            /\ fn.nodes'[Len(fn.nodes')].flags = 0
            /\ fn.face_order' = fn.face_order
       ELSE /\ fn.stack' = stack0
            /\ fn.nodes'[Len(fn.nodes')].flags = LEAF_FLAG
            /\ fn.nodes'[Len(fn.nodes')].data1 = n
            /\ Len(fn.face_order') = Len(fn.face_order) + n

\* the loop has ended: every face index is in face_order once
AllFacesEmitted ==
  (pc = "bvh" /\ fn.stack = <<>>) =>
    LET n == Len(fn.data.cells[fn.cur].faces)
    IN /\ Len(fn.face_order) = n
       /\ \A f \in 0..(n - 1) : SeqCount(fn.face_order, f) = 1

\* a cell without faces leaves build_bvh with the reserved header alone
EmptyCellHeader ==
  \A c \in BuiltCells :
    fn.data.cells[c].faces = <<>> =>
      fn.data.cells[c].bvh_data = BvhHeaderBytes /\ fn.data.cells[c].nodes = <<>>

\* C29: build_bvh terminates for every finite face list: a range of n > 4
\* faces is split into ranges of floor(n/2) and n - floor(n/2) faces, both
\* non-empty and smaller than n, a range of at most 4 faces becomes a leaf, the
\* stack eventually becomes empty, and then every face has been emitted to
\* face_order exactly once; an empty cell yields only the 16-byte header.
C29_BvhTerminates ==
  /\ [][BvhTurn]_vars
  /\ [](AllFacesEmitted /\ EmptyCellHeader)
  /\ ((pc = "bvh") ~> (pc = "bvh" /\ fn.stack = <<>>))

\* the loop has ended on a nine-face cell after two splits and three leaves
C29_Witness ==
  /\ pc = "bvh" /\ fn.stack = <<>>
  /\ Len(fn.data.cells[fn.cur].faces) = 9
  /\ Len(fn.nodes) = 5
  /\ Len(fn.face_order) = 9

\* --------------------------------------------- CollisionEncoder::read_obj
MaxObjLines == 2

\* the index tokens of a face line: 1-based, zero, and relative to the end
ObjTokens == {-2, -1, 0, 1, 2}

\* static_cast<uint32_t> of an int, as the halves of the result
ToUint32(i) == [hi |-> ((i - (i % 65536)) \div 65536) % 65536, lo |-> i % 65536]

\* v < n for a uint32 v and a size n
IndexBelow(v, n) == IdLess(v, ToUint32(n))

\* the conversion of one index token when n vertices have been read
obj_index(idx, n) == ToUint32(IF idx < 0 THEN n + idx ELSE idx - 1)

\* fan triangulation of the converted indices of one face line
obj_fan(indices) ==
  [i \in 1..(Len(indices) - 2) |->
     [v0 |-> indices[1], v1 |-> indices[i + 1], v2 |-> indices[i + 2]]]

InitObj ==
  /\ pc = "obj"
  /\ PipelineIdle
  /\ fn = [vertices |-> <<>>, faces |-> <<>>, lines |-> 0, ok |-> FALSE,
           out_of_range |-> FALSE]

\* a "v x y z" line
ObjVertexLine ==
  /\ pc = "obj"
  /\ fn.lines < MaxObjLines
  /\ fn' = [fn EXCEPT !.vertices = Append(fn.vertices, <<Len(fn.vertices), 0, 0>>),
                      !.lines = fn.lines + 1]
  /\ pc' = "obj"
  /\ UNCHANGED <<gridVars, encVars, out, app>>

\* an "f a b c [d]" line
ObjFaceLine ==
  /\ pc = "obj"
  /\ fn.lines < MaxObjLines
  /\ \E k \in {3, 4} : \E tokens \in [1..k -> ObjTokens] :
       LET indices == [i \in 1..k |-> obj_index(tokens[i], Len(fn.vertices))]
       IN fn' = [fn EXCEPT !.faces = fn.faces \o obj_fan(indices),
                           !.lines = fn.lines + 1]
  /\ pc' = "obj"
  /\ UNCHANGED <<gridVars, encVars, out, app>>

\* the end of the file: read_obj returns whether it has vertices and faces
ObjReturn ==
  /\ pc = "obj"
  /\ fn' = [fn EXCEPT !.ok = (fn.vertices # <<>> /\ fn.faces # <<>>)]
  /\ pc' = "obj_read"
  /\ UNCHANGED <<gridVars, encVars, out, app>>

\* encode goes on to partition_by_cell, which reads vertices[tri.v0],
\* vertices[tri.v1] and vertices[tri.v2] of every face without a check
ObjPartition ==
  /\ pc = "obj_read"
  /\ fn.ok
  /\ fn' = [fn EXCEPT !.out_of_range =
                        \E i \in 1..Len(fn.faces) :
                          \E v \in {fn.faces[i].v0, fn.faces[i].v1, fn.faces[i].v2} :
                            ~IndexBelow(v, Len(fn.vertices))]
  /\ pc' = "obj_parted"
  /\ UNCHANGED <<gridVars, encVars, out, app>>

SpecObj == InitObj /\ [][ObjVertexLine \/ ObjFaceLine \/ ObjReturn \/ ObjPartition]_vars

\* C30: every vertex index read_obj stores in a triangle is a valid 0-based
\* index into the final vertex array that partition_by_cell dereferences,
\* whatever the v and f lines are: positive indices, index 0, negative
\* indices beyond the vertices read so far, references to vertices declared
\* later or never.
C30_ObjIndicesValid ==
  /\ (pc = "obj_read" /\ fn.ok) =>
       \A i \in 1..Len(fn.faces) :
         \A v \in {fn.faces[i].v0, fn.faces[i].v1, fn.faces[i].v2} :
           IndexBelow(v, Len(fn.vertices))
  /\ pc = "obj_parted" => ~fn.out_of_range

====
